---- MODULE Spec2Model ----
(***************************************************************************)
(* Merkle Search Tree engine of atmst: MSTNode, MemoryBlockStore,          *)
(* NodeStore, NodeWrangler (put_record / del_record), NodeWalker,          *)
(* mst_diff / record_diff and the inclusion and exclusion proofs.          *)
(*                                                                         *)
(* Three programs run over them: Spec, the random test of put_record,      *)
(* del_record and mst_diff; CodecSpec, the serialisation round trip of one *)
(* node or one block; StoreSpec, calls on one MemoryBlockStore.            *)
(* Four more cover the other block stores: OverlaySpec, calls on one       *)
(* OverlayBlockStore; VarintSpec, the varint round trip of car_file;       *)
(* CarSpec, a ReadOnlyCARBlockStore over one file; CacheSpec, a NodeStore  *)
(* whose BlockStore is also called directly. The eighth, ProtoSpec, is put  *)
(* of the NodeWrangler of the prototype module src/mst.py.                 *)
(*                                                                         *)
(* Representation.                                                         *)
(*  - A Python str / bytes value is a sequence of small naturals, compared *)
(*    lexicographically as Python compares str.                            *)
(*  - Optional[CID]: None is <<>>, a CID is the one-element sequence       *)
(*    holding the serialised bytes it is the sha-256 of (the hash is taken *)
(*    to be collision free, so a CID determines its block).                *)
(*  - A function result is [st, val, ns]: st is "ok" or the name of the    *)
(*    exception raised, ns the NodeStore after the call (side effects made *)
(*    before a raise are kept).                                            *)
(***************************************************************************)
EXTENDS Integers, Sequences, FiniteSets, TLC

\* ---------------------------------------------------------------- bounds
NumKeys == 5
NumVals == 2
MaxOps == 3
MaxEntries == 2
MaxKeyLen == 2
NumBytes == 2

\* ------------------------------------------------------------ str values
None == <<>>

\* Python's a < b on str
RECURSIVE StrLt(_, _)
StrLt(a, b) ==
  IF b = <<>> THEN FALSE
  ELSE IF a = <<>> THEN TRUE
  ELSE IF a[1] # b[1] THEN a[1] < b[1]
  ELSE StrLt(Tail(a), Tail(b))

StrGt(a, b) == StrLt(b, a)

StrLe(a, b) == ~StrLt(b, a)

\* t[from:to], 0-based; an end past the last item is the end of t, as in
\* Python
Slice(t, from, to) == SubSeq(t, from + 1, IF to < Len(t) THEN to ELSE Len(t))

\* ilen(takewhile(bool, map(operator.eq, prev_key, key_bytes)))
RECURSIVE shared_prefix_len(_, _)
shared_prefix_len(a, b) ==
  IF a = <<>> \/ b = <<>> THEN 0
  ELSE IF a[1] # b[1] THEN 0
  ELSE 1 + shared_prefix_len(Tail(a), Tail(b))

\* ------------------------------------------------------------------ keys
\* The key universe: the paths number 2 .. NumKeys + 1 of an ascending list
\* in which some path is a proper prefix of the next
\* ("\x01" < "\x01\x01" < "\x02" < "\x02\x01" < ...).
KeyStr(i) == IF i % 2 = 1 THEN <<(i + 1) \div 2>> ELSE <<i \div 2, 1>>

KeyIndex(key) == 2 * key[1] - 2 + Len(key)

Keys == {KeyStr(i) : i \in 2..(NumKeys + 1)}

Vals == 1..NumVals

RECURSIVE TrailingZeros(_)
TrailingZeros(n) == IF n % 2 = 1 THEN 0 ELSE 1 + TrailingZeros(n \div 2)

\* MSTNode.key_height: sha-256 is not computed; the i-th path of the list
\* has the height the i-th key of the test's key set has (0, 1, 0, 2, 0, 1,
\* 0, ...), a fixed function of the key alone. The universe holds the keys
\* of heights 1, 0, 2, 0, ...
key_height(key) == TrailingZeros(KeyIndex(key))

PATH_MIN == <<>>

PATH_MAX == <<255>>

\* --------------------------------------------------------------- MSTNode
MSTNode(keys, vals, subtrees) ==
  [keys |-> keys, vals |-> vals, subtrees |-> subtrees]

\* MSTNode.__post_init__: TRUE iff the constructor does not raise ValueError
post_init(node) ==
  /\ Len(node.subtrees) = Len(node.keys) + 1
  /\ Len(node.keys) = Len(node.vals)

empty_root == MSTNode(<<>>, <<>>, <<None>>)

\* variant: no prefix is shared, every entry holds its whole key
serialised_whole_keys(node) ==
  << [l |-> node.subtrees[1],
      e |-> [i \in 1..Len(node.keys) |->
               [k |-> node.keys[i],
                p |-> 0,
                t |-> node.subtrees[i + 1],
                v |-> node.vals[i]]]] >>

\* MSTNode.serialised: the DAG-CBOR map {"e": [{k, p, t, v}...], "l": ...},
\* held as a one-item byte string
serialised(node) ==
  << [l |-> node.subtrees[1],
      e |-> [i \in 1..Len(node.keys) |->
               LET prev_key == IF i = 1 THEN <<>> ELSE node.keys[i - 1]
                   key_bytes == node.keys[i]
                   p == shared_prefix_len(prev_key, key_bytes)
               IN [k |-> SubSeq(key_bytes, p + 1, Len(key_bytes)),
                   p |-> p,
                   t |-> node.subtrees[i + 1],
                   v |-> node.vals[i]]]] >>

\* MSTNode.cid: cid-v1(dag-cbor, sha-256(serialised))
cid(node) == <<serialised(node)>>

\* the for loop of MSTNode.deserialise, from entry i on
RECURSIVE deserialise_loop(_, _, _, _)
deserialise_loop(e, i, prev_key, node) ==
  IF i > Len(e) THEN [st |-> "ok", val |-> node]
  ELSE LET prefix_len == e[i].p
           suffix == e[i].k
           this_key == Slice(prev_key, 0, prefix_len) \o suffix
       IN IF prefix_len > Len(prev_key)
            THEN [st |-> "ValueError", val |-> node]
          ELSE IF Slice(prev_key, prefix_len, prefix_len + 1) = Slice(suffix, 0, 1)
            THEN [st |-> "ValueError", val |-> node]
          ELSE IF StrLe(this_key, prev_key)
            THEN [st |-> "ValueError", val |-> node]
          ELSE deserialise_loop(e, i + 1, this_key,
                 MSTNode(Append(node.keys, this_key),
                         Append(node.vals, e[i].v),
                         Append(node.subtrees, e[i].t)))

\* variant: the sort order of the keys is not checked
RECURSIVE deserialise_loop_any_order(_, _, _, _)
deserialise_loop_any_order(e, i, prev_key, node) ==
  IF i > Len(e) THEN [st |-> "ok", val |-> node]
  ELSE LET prefix_len == e[i].p
           suffix == e[i].k
           this_key == Slice(prev_key, 0, prefix_len) \o suffix
       IN IF prefix_len > Len(prev_key)
            THEN [st |-> "ValueError", val |-> node]
          ELSE IF Slice(prev_key, prefix_len, prefix_len + 1) = Slice(suffix, 0, 1)
            THEN [st |-> "ValueError", val |-> node]
          ELSE deserialise_loop_any_order(e, i + 1, this_key,
                 MSTNode(Append(node.keys, this_key),
                         Append(node.vals, e[i].v),
                         Append(node.subtrees, e[i].t)))

deserialise_any_order(data) ==
  deserialise_loop_any_order(data[1].e, 1, <<>>,
                             MSTNode(<<>>, <<>>, <<data[1].l>>))

\* MSTNode.deserialise
deserialise(data) ==
  deserialise_loop(data[1].e, 1, <<>>, MSTNode(<<>>, <<>>, <<data[1].l>>))

\* variant: any node without keys counts as empty
is_empty_without_keys(node) == node.keys = <<>>

is_empty(node) == node.subtrees = <<None>>

\* variant: the empty node is not turned into None
_to_optional_keeps_empty(node) == cid(node)

_to_optional(node) == IF is_empty(node) THEN None ELSE cid(node)

\* MSTNode.height; "Exception" when it raises "cannot determine node height"
height(node) ==
  IF node.keys # <<>> THEN [st |-> "ok", val |-> key_height(node.keys[1])]
  ELSE IF node.subtrees[1] = None THEN [st |-> "ok", val |-> 0]
  ELSE [st |-> "Exception", val |-> 0]

\* MSTNode.gte_index (0-based, as in the source)
RECURSIVE gte_index_loop(_, _, _)
gte_index_loop(node, key, i) ==
  IF i < Len(node.keys) /\ StrGt(key, node.keys[i + 1])
    THEN gte_index_loop(node, key, i + 1)
    ELSE i

\* variant: the scan also steps over a key equal to the one looked for
RECURSIVE gte_index_loop_past_equal(_, _, _)
gte_index_loop_past_equal(node, key, i) ==
  IF i < Len(node.keys) /\ ~StrLt(key, node.keys[i + 1])
    THEN gte_index_loop_past_equal(node, key, i + 1)
    ELSE i

gte_index_past_equal(node, key) == gte_index_loop_past_equal(node, key, 0)

gte_index(node, key) == gte_index_loop(node, key, 0)

\* ------------------------------------------------------ tuple helpers
\* all indices 0-based
_tuple_replace_at(original, i, value) ==
  Slice(original, 0, i) \o <<value>> \o Slice(original, i + 1, Len(original))

\* variant: the value goes to the end
_tuple_insert_at_end(original, i, value) == Append(original, value)

_tuple_insert_at(original, i, value) ==
  Slice(original, 0, i) \o <<value>> \o Slice(original, i, Len(original))

_tuple_remove_at(original, i) ==
  Slice(original, 0, i) \o Slice(original, i + 1, Len(original))

\* ------------------------------------------------------ MemoryBlockStore
\* dict.get / dict assignment on a dict held as a function
DictSet(d, k, v) == [x \in DOMAIN d \cup {k} |-> IF x = k THEN v ELSE d[x]]

\* del d[k], a no-op when k is not in d
DictDel(d, k) == [x \in DOMAIN d \ {k} |-> d[x]]

\* MemoryBlockStore.put_block: the new _state, or "ValueError"
put_block(state, key, value) ==
  IF key \in DOMAIN state /\ state[key] # <<>>
    THEN IF state[key] = value
           THEN [st |-> "ok", val |-> state]
           ELSE [st |-> "ValueError", val |-> state]
    ELSE [st |-> "ok", val |-> DictSet(state, key, value)]

\* variant: an empty value counts as no value
get_block_falsy(state, key) ==
  IF key \in DOMAIN state /\ state[key] # <<>>
    THEN [st |-> "ok", val |-> state[key]]
    ELSE [st |-> "KeyError", val |-> <<>>]

\* MemoryBlockStore.get_block
get_block(state, key) ==
  IF key \in DOMAIN state
    THEN [st |-> "ok", val |-> state[key]]
    ELSE [st |-> "KeyError", val |-> <<>>]

\* MemoryBlockStore.del_block: the new _state
del_block(state, key) ==
  IF key \in DOMAIN state THEN DictDel(state, key) ELSE state

\* ------------------------------------------------------------- NodeStore
\* ns = [bs |-> the MemoryBlockStore's _state, cache |-> the LRU dict].
\* The LRU holds 1024 entries; no run here stores that many nodes, so no
\* entry is ever evicted and the cache is a plain dict.
Ok(ns, v) == [st |-> "ok", val |-> v, ns |-> ns]

Raise(ns, e) == [st |-> e, val |-> <<>>, ns |-> ns]

\* "v = <expression>" followed by the rest of a function body
With(v, rest(_)) == rest(v)

\* "r = <call>" followed by the rest of a function body: the rest runs on
\* the result of the call, unless the call raised, and then the exception
\* leaves the function
Then(r, rest(_)) == IF r.st = "ok" THEN rest(r) ELSE r

\* variant: the node goes into the cache and not into the blockstore
stored_node_cache_only(ns, node) ==
  Ok([ns EXCEPT !.cache = DictSet(ns.cache, cid(node), node)], node)

\* NodeStore.stored_node
stored_node(ns, node) ==
  With(cid(node), LAMBDA c :
  With(put_block(ns.bs, c, serialised(node)), LAMBDA pb :
    IF pb.st # "ok"
      THEN Raise([ns EXCEPT !.cache = DictSet(ns.cache, c, node)], pb.st)
      ELSE Ok([cache |-> DictSet(ns.cache, c, node), bs |-> pb.val], node)))

\* variant: the empty node of get_node(None) is made and not stored
get_node_none_unstored(ns, c) ==
  IF c \in DOMAIN ns.cache THEN Ok(ns, ns.cache[c])
  ELSE IF c = None THEN Ok(ns, empty_root)
  ELSE With(get_block(ns.bs, c), LAMBDA gb :
         IF gb.st # "ok" THEN Raise(ns, gb.st)
         ELSE With(deserialise(gb.val), LAMBDA d :
                IF d.st # "ok" THEN Raise(ns, d.st)
                ELSE Ok([ns EXCEPT !.cache = DictSet(ns.cache, c, d.val)], d.val)))

\* NodeStore.get_node
get_node(ns, c) ==
  IF c \in DOMAIN ns.cache THEN Ok(ns, ns.cache[c])
  ELSE IF c = None THEN stored_node(ns, empty_root)
  ELSE With(get_block(ns.bs, c), LAMBDA gb :
         IF gb.st # "ok" THEN Raise(ns, gb.st)
         ELSE With(deserialise(gb.val), LAMBDA d :
                IF d.st # "ok" THEN Raise(ns, d.st)
                ELSE Ok([ns EXCEPT !.cache = DictSet(ns.cache, c, d.val)], d.val)))

\* self.ns.stored_node(MSTNode(keys=..., vals=..., subtrees=...))
stored_new(ns, keys, vals, subtrees) ==
  IF post_init(MSTNode(keys, vals, subtrees))
    THEN stored_node(ns, MSTNode(keys, vals, subtrees))
    ELSE Raise(ns, "ValueError")

\* ------------------------------------------------------ OverlayBlockStore
\* ov = [upper, lower]: the _state of the two MemoryBlockStores it was
\* constructed over. A result is [st, val, ov].
\* OverlayBlockStore.put_block
Overlay_put_block(ov, key, value) ==
  With(put_block(ov.upper, key, value), LAMBDA r :
    [st |-> r.st, val |-> <<>>, ov |-> [ov EXCEPT !.upper = r.val]])

\* OverlayBlockStore.get_block
Overlay_get_block(ov, key) ==
  With(get_block(ov.upper, key), LAMBDA r :
    IF r.st = "KeyError" THEN get_block(ov.lower, key) ELSE r)

\* variant: a delete goes through to lower as well
Overlay_del_block_both(ov, key) ==
  [upper |-> del_block(ov.upper, key), lower |-> del_block(ov.lower, key)]

\* OverlayBlockStore.del_block: the new ov
Overlay_del_block(ov, key) ==
  [ov EXCEPT !.upper = del_block(ov.upper, key)]

\* ------------------------------------------------------------ car_file
\* A Python int n is held as [neg, d]: neg says n < 0, d are the 7-bit
\* groups of |n|, lowest first, the highest one not 0 (so 0 is <<>>, 128 is
\* <<0, 1>> and 2**63 is nine 0 groups and a 1). n & 0x7f is then the first
\* group, n >> 7 the rest, and (val & 0x7f) << shift the group number
\* shift / 7. A byte is a natural below 256.
GROUP_BITS == 7

VARINT_BITS == 63

PyInt(d) == [neg |-> FALSE, d |-> d]

\* the int whose groups are d, zero groups at the top dropped
RECURSIVE Normalised(_)
Normalised(d) ==
  IF d # <<>> /\ d[Len(d)] = 0 THEN Normalised(Slice(d, 0, Len(d) - 1)) ELSE d

\* variant: one more group is let through
in_range_64(n) == ~n.neg /\ Len(n.d) * GROUP_BITS <= VARINT_BITS + GROUP_BITS

\* "0 <= n < 2**63"
in_range(n) == ~n.neg /\ Len(n.d) * GROUP_BITS <= VARINT_BITS

\* the while loop of encode_varint and the append after it
RECURSIVE encode_loop(_, _)
encode_loop(d, res) ==
  IF Len(d) > 1
    THEN encode_loop(Tail(d), Append(res, 128 + Head(d)))
    ELSE Append(res, IF d = <<>> THEN 0 ELSE Head(d))

\* encode_varint
encode_varint(n) ==
  IF ~in_range(n)
    THEN [st |-> "ValueError", val |-> <<>>]
    ELSE [st |-> "ok", val |-> encode_loop(n.d, <<>>)]

\* variant: a final zero byte is let through
not_minimal_never(shift, val) == FALSE

\* "shift and not val"
not_minimal(shift, val) == shift # 0 /\ val = 0

\* the for loop of decode_varint over stream = [data, pos]; d are the groups
\* or-ed into n so far. The result carries the position the stream is left at.
RECURSIVE decode_loop(_, _, _)
decode_loop(stream, shift, d) ==
  IF shift >= VARINT_BITS
    THEN [st |-> "ValueError", val |-> PyInt(<<>>), pos |-> stream.pos]
  ELSE IF stream.pos >= Len(stream.data)
    THEN [st |-> "ValueError", val |-> PyInt(<<>>), pos |-> stream.pos]
  ELSE With(stream.data[stream.pos + 1], LAMBDA val :
       With(Append(d, val % 128), LAMBDA n :
         IF val \div 128 = 0
           THEN IF not_minimal(shift, val)
                  THEN [st |-> "ValueError", val |-> PyInt(<<>>),
                        pos |-> stream.pos + 1]
                  ELSE [st |-> "ok", val |-> PyInt(Normalised(n)),
                        pos |-> stream.pos + 1]
           ELSE decode_loop([stream EXCEPT !.pos = stream.pos + 1],
                            shift + GROUP_BITS, n)))

\* decode_varint
decode_varint(stream) == decode_loop(stream, 0, <<>>)

\* the value of a small int held as groups, and the groups of a small int
RECURSIVE int_value(_)
int_value(d) == IF d = <<>> THEN 0 ELSE Head(d) + 128 * int_value(Tail(d))

RECURSIVE int_groups(_)
int_groups(i) == IF i = 0 THEN <<>> ELSE <<i % 128>> \o int_groups(i \div 128)

\* ReadOnlyCARBlockStore. The file is [data, pos]; file.read(n) returns the
\* bytes from pos up to n of them (all of them for a negative n) and moves
\* pos past them; file.seek may set pos past the end, where read returns
\* b"".
CID_LENGTH == 36

CIDV1_DAG_CBOR_SHA256_32_PFX == <<1, 113, 18, 32>>

DIGEST_LENGTH == CID_LENGTH - Len(CIDV1_DAG_CBOR_SHA256_32_PFX)

\* hashlib.sha256(value).digest(), taken to be collision free: the value,
\* zero bytes up to 31 and its length (values here are shorter than that)
sha256(value) ==
  [i \in 1..DIGEST_LENGTH |->
     IF i <= Len(value) THEN value[i]
     ELSE IF i = DIGEST_LENGTH THEN Len(value) ELSE 0]

\* file.read(n) at pos, the bytes only
read(data, pos, n) ==
  IF pos >= Len(data) THEN <<>>
  ELSE IF n < 0 THEN Slice(data, pos, Len(data))
  ELSE Slice(data, pos, pos + n)

\* cbrrr's decode_dag_cbor on a CAR header: the header {version, roots} is
\* held as two bytes, its version and its number of roots
decode_dag_cbor(header) == [version |-> header[1], roots |-> header[2]]

\* cbrrr's CID(b).is_cidv1_dag_cbor_sha256_32()
is_cidv1_dag_cbor_sha256_32(b) ==
  Len(b) = CID_LENGTH /\ Slice(b, 0, 4) = CIDV1_DAG_CBOR_SHA256_32_PFX

\* the "while True" loop of ReadOnlyCARBlockStore.__init__, the file at pos
RECURSIVE scan_blocks(_, _, _)
scan_blocks(data, pos, block_offsets) ==
  With(decode_varint([data |-> data, pos |-> pos]), LAMBDA dv :
    IF dv.st # "ok" THEN [st |-> "ok", block_offsets |-> block_offsets]
    ELSE With(int_value(dv.val.d), LAMBDA length :
         With(read(data, dv.pos, CID_LENGTH), LAMBDA c :
           IF ~is_cidv1_dag_cbor_sha256_32(c)
             THEN [st |-> "ValueError", block_offsets |-> block_offsets]
             ELSE scan_blocks(data, dv.pos + length,
                              DictSet(block_offsets, c,
                                      <<dv.pos + CID_LENGTH,
                                        length - CID_LENGTH>>)))))

\* ReadOnlyCARBlockStore.__init__: st and the block_offsets made so far
CAR_init(data) ==
  With(decode_varint([data |-> data, pos |-> 0]), LAMBDA dv :
    IF dv.st # "ok" THEN [st |-> dv.st, block_offsets |-> <<>>]
    ELSE With(int_value(dv.val.d), LAMBDA header_len :
         With(read(data, dv.pos, header_len), LAMBDA header :
           IF Len(header) # header_len
             THEN [st |-> "EOFError", block_offsets |-> <<>>]
           ELSE IF decode_dag_cbor(header).version # 1
             THEN [st |-> "ValueError", block_offsets |-> <<>>]
           ELSE IF decode_dag_cbor(header).roots # 1
             THEN [st |-> "ValueError", block_offsets |-> <<>>]
           ELSE scan_blocks(data, dv.pos + header_len, <<>>))))

\* variant: the hash of what was read is not looked at
CAR_get_block_unchecked(data, block_offsets, validate_hashes, key) ==
  IF key \notin DOMAIN block_offsets THEN [st |-> "KeyError", val |-> <<>>]
  ELSE With(read(data, block_offsets[key][1], block_offsets[key][2]),
         LAMBDA value :
           IF Len(value) # block_offsets[key][2]
             THEN [st |-> "EOFError", val |-> <<>>]
             ELSE [st |-> "ok", val |-> value])

\* ReadOnlyCARBlockStore.get_block
CAR_get_block(data, block_offsets, validate_hashes, key) ==
  IF key \notin DOMAIN block_offsets THEN [st |-> "KeyError", val |-> <<>>]
  ELSE With(read(data, block_offsets[key][1], block_offsets[key][2]),
         LAMBDA value :
           IF Len(value) # block_offsets[key][2]
             THEN [st |-> "EOFError", val |-> <<>>]
           ELSE IF validate_hashes
                   /\ Slice(key, 0, 4) # CIDV1_DAG_CBOR_SHA256_32_PFX
             THEN [st |-> "ValueError", val |-> <<>>]
           ELSE IF validate_hashes /\ sha256(value) # Slice(key, 4, Len(key))
             THEN [st |-> "ValueError", val |-> <<>>]
           ELSE [st |-> "ok", val |-> value])

\* ReadOnlyCARBlockStore.put_block and del_block: st and the block_offsets
CAR_put_block(block_offsets, key, value) ==
  [st |-> "NotImplementedError", block_offsets |-> block_offsets]

CAR_del_block(block_offsets, key) ==
  [st |-> "NotImplementedError", block_offsets |-> block_offsets]

\* ---------------------------------------------------------- NodeWrangler
\* NodeWrangler._split_on_key; val is the pair <<left, right>>
RECURSIVE _split_on_key(_, _, _)
_split_on_key(ns, node_cid, key) ==
  IF node_cid = None THEN Ok(ns, <<None, None>>)
  ELSE
    Then(get_node(ns, node_cid), LAMBDA g :
    With(g.val, LAMBDA node :
    With(gte_index(node, key), LAMBDA i :
    Then(_split_on_key(g.ns, node.subtrees[i + 1], key), LAMBDA sub :
    Then(stored_new(sub.ns,
                    Slice(node.keys, 0, i),
                    Slice(node.vals, 0, i),
                    Slice(node.subtrees, 0, i) \o <<sub.val[1]>>), LAMBDA left :
    Then(stored_new(left.ns,
                    Slice(node.keys, i, Len(node.keys)),
                    Slice(node.vals, i, Len(node.vals)),
                    <<sub.val[2]>> \o Slice(node.subtrees, i + 1, Len(node.subtrees))),
         LAMBDA right :
    Ok(right.ns, <<_to_optional(left.val), _to_optional(right.val)>>)))))))

\* variant: a key already present keeps its old value
_put_here_keeps_value(ns, node, key, val) ==
  With(gte_index(node, key), LAMBDA i :
    IF i < Len(node.keys) /\ node.keys[i + 1] = key
      THEN Ok(ns, node)
      ELSE Then(_split_on_key(ns, node.subtrees[i + 1], key), LAMBDA sp :
             stored_new(sp.ns,
                        _tuple_insert_at(node.keys, i, key),
                        _tuple_insert_at(node.vals, i, val),
                        Slice(node.subtrees, 0, i) \o sp.val
                          \o Slice(node.subtrees, i + 1, Len(node.subtrees)))))

\* variant: the block of the node that is replaced is deleted from the
\* blockstore before the new node is stored
_put_here_in_place(ns, node, key, val) ==
  With(gte_index(node, key), LAMBDA i :
  With([ns EXCEPT !.bs = [x \in DOMAIN ns.bs \ {cid(node)} |-> ns.bs[x]]],
       LAMBDA dropped :
    IF i < Len(node.keys) /\ node.keys[i + 1] = key
      THEN IF node.vals[i + 1] = val
             THEN Ok(ns, node)
             ELSE stored_new(dropped, node.keys,
                             _tuple_replace_at(node.vals, i, val),
                             node.subtrees)
      ELSE Then(_split_on_key(dropped, node.subtrees[i + 1], key), LAMBDA sp :
             stored_new(sp.ns,
                        _tuple_insert_at(node.keys, i, key),
                        _tuple_insert_at(node.vals, i, val),
                        Slice(node.subtrees, 0, i) \o sp.val
                          \o Slice(node.subtrees, i + 1, Len(node.subtrees))))))

\* NodeWrangler._put_here; val is the resulting node
_put_here(ns, node, key, val) ==
  With(gte_index(node, key), LAMBDA i :
    IF i < Len(node.keys) /\ node.keys[i + 1] = key
      THEN IF node.vals[i + 1] = val
             THEN Ok(ns, node)
             ELSE stored_new(ns, node.keys,
                             _tuple_replace_at(node.vals, i, val),
                             node.subtrees)
      ELSE Then(_split_on_key(ns, node.subtrees[i + 1], key), LAMBDA sp :
             stored_new(sp.ns,
                        _tuple_insert_at(node.keys, i, key),
                        _tuple_insert_at(node.vals, i, val),
                        Slice(node.subtrees, 0, i) \o sp.val
                          \o Slice(node.subtrees, i + 1, Len(node.subtrees)))))

\* variant: the tree is grown from an empty node instead of from a node
\* wrapping the old root (as NodeWrangler._put_recursive of src/mst.py does)
RECURSIVE _put_recursive_from_empty(_, _, _, _, _, _)
_put_recursive_from_empty(ns, node, key, val, kh, tree_height) ==
  IF kh > tree_height THEN
    Then(_put_recursive_from_empty(ns, empty_root, key, val, kh, tree_height + 1),
         LAMBDA rec :
    stored_node(rec.ns, rec.val))
  ELSE IF kh < tree_height THEN
    With(gte_index(node, key), LAMBDA i :
    Then(get_node(ns, node.subtrees[i + 1]), LAMBDA g :
    Then(_put_recursive_from_empty(g.ns, g.val, key, val, kh, tree_height - 1),
         LAMBDA rec :
    stored_new(rec.ns, node.keys, node.vals,
               _tuple_replace_at(node.subtrees, i, cid(rec.val))))))
  ELSE IF kh # tree_height THEN Raise(ns, "AssertionError")
  ELSE _put_here(ns, node, key, val)

\* NodeWrangler._put_recursive; val is the resulting node
RECURSIVE _put_recursive(_, _, _, _, _, _)
_put_recursive(ns, node, key, val, kh, tree_height) ==
  IF kh > tree_height THEN \* we need to grow the tree
    Then(stored_new(ns, <<>>, <<>>, <<cid(node)>>), LAMBDA wrap :
    Then(_put_recursive(wrap.ns, wrap.val, key, val, kh, tree_height + 1),
         LAMBDA rec :
    stored_node(rec.ns, rec.val)))
  ELSE IF kh < tree_height THEN \* we need to look below
    With(gte_index(node, key), LAMBDA i :
    Then(get_node(ns, node.subtrees[i + 1]), LAMBDA g :
    Then(_put_recursive(g.ns, g.val, key, val, kh, tree_height - 1),
         LAMBDA rec :
    stored_new(rec.ns, node.keys, node.vals,
               _tuple_replace_at(node.subtrees, i, cid(rec.val))))))
  ELSE IF kh # tree_height THEN Raise(ns, "AssertionError")
  ELSE _put_here(ns, node, key, val)

\* "return <call>.cid": the CID of the node a call returned
ReturnCid(r) == Ok(r.ns, cid(r.val))

\* NodeWrangler.put_record; val is the returned root CID
put_record(ns, root_cid, key, val) ==
  Then(get_node(ns, root_cid), LAMBDA g :
    IF is_empty(g.val)
      THEN Then(_put_here(g.ns, g.val, key, val), ReturnCid)
      ELSE With(height(g.val), LAMBDA h :
             IF h.st # "ok" THEN Raise(g.ns, h.st)
             ELSE Then(_put_recursive(g.ns, g.val, key, val, key_height(key), h.val),
                       ReturnCid)))

\* NodeWrangler._put_recursive of the prototype src/mst.py; val is the
\* resulting node
RECURSIVE Mst_put_recursive(_, _, _, _, _, _)
Mst_put_recursive(ns, node, key, val, kh, tree_height) ==
  IF kh > tree_height THEN \* we need to grow the tree
    Then(Mst_put_recursive(ns, empty_root, key, val, kh, tree_height + 1),
         LAMBDA rec :
    stored_node(rec.ns, rec.val))
  ELSE IF kh < tree_height THEN \* we need to look below
    With(gte_index(node, key), LAMBDA i :
    Then(get_node(ns, node.subtrees[i + 1]), LAMBDA g :
    Then(Mst_put_recursive(g.ns, g.val, key, val, kh, tree_height - 1),
         LAMBDA rec :
    stored_new(rec.ns, node.keys, node.vals,
               _tuple_replace_at(node.subtrees, i, cid(rec.val))))))
  ELSE IF kh # tree_height THEN Raise(ns, "AssertionError")
  ELSE _put_here(ns, node, key, val)

\* NodeWrangler.put of the prototype src/mst.py; val is the returned root CID
Mst_put(ns, root_cid, key, val) ==
  Then(get_node(ns, root_cid), LAMBDA g :
    IF is_empty(g.val)
      THEN Then(_put_here(g.ns, g.val, key, val), ReturnCid)
      ELSE With(height(g.val), LAMBDA h :
             IF h.st # "ok" THEN Raise(g.ns, h.st)
             ELSE Then(Mst_put_recursive(g.ns, g.val, key, val,
                                         key_height(key), h.val),
                       ReturnCid)))

\* "return <call>._to_optional()"
ReturnOptional(r) == Ok(r.ns, _to_optional(r.val))

\* variant: the two inner subtrees that meet are not merged, the right one
\* is dropped
_merge_drops_inner(ns, left_cid, right_cid) ==
  IF left_cid = None THEN Ok(ns, right_cid)
  ELSE IF right_cid = None THEN Ok(ns, left_cid)
  ELSE
    Then(get_node(ns, left_cid), LAMBDA gl :
    Then(get_node(gl.ns, right_cid), LAMBDA gr :
    Then(stored_new(gr.ns,
                    gl.val.keys \o gr.val.keys,
                    gl.val.vals \o gr.val.vals,
                    gl.val.subtrees
                      \o Slice(gr.val.subtrees, 1, Len(gr.val.subtrees))),
         ReturnOptional)))

\* NodeWrangler._merge; val is an Optional[CID]
RECURSIVE _merge(_, _, _)
_merge(ns, left_cid, right_cid) ==
  IF left_cid = None THEN Ok(ns, right_cid)
  ELSE IF right_cid = None THEN Ok(ns, left_cid)
  ELSE
    Then(get_node(ns, left_cid), LAMBDA gl :
    Then(get_node(gl.ns, right_cid), LAMBDA gr :
    With(gl.val, LAMBDA left :
    With(gr.val, LAMBDA right :
    Then(_merge(gr.ns, left.subtrees[Len(left.subtrees)], right.subtrees[1]),
         LAMBDA m :
    Then(stored_new(m.ns,
                    left.keys \o right.keys,
                    left.vals \o right.vals,
                    Slice(left.subtrees, 0, Len(left.subtrees) - 1) \o <<m.val>>
                      \o Slice(right.subtrees, 1, Len(right.subtrees))),
         ReturnOptional))))))

\* variant: a key higher than the tree makes the result None
RECURSIVE _delete_recursive_high_none(_, _, _, _, _)
_delete_recursive_high_none(ns, node, key, kh, tree_height) ==
  IF kh > tree_height THEN Ok(ns, None)
  ELSE
    With(gte_index(node, key), LAMBDA i :
      IF kh < tree_height THEN
        IF node.subtrees[i + 1] = None THEN Ok(ns, _to_optional(node))
        ELSE
          Then(get_node(ns, node.subtrees[i + 1]), LAMBDA g :
          Then(_delete_recursive_high_none(g.ns, g.val, key, kh, tree_height - 1), LAMBDA rec :
          Then(stored_new(rec.ns, node.keys, node.vals,
                          _tuple_replace_at(node.subtrees, i, rec.val)),
               ReturnOptional)))
      ELSE IF i = Len(node.keys) \/ node.keys[i + 1] # key
        THEN Ok(ns, _to_optional(node))
      ELSE
        Then(_merge(ns, node.subtrees[i + 1], node.subtrees[i + 2]), LAMBDA m :
        Then(stored_new(m.ns,
                        _tuple_remove_at(node.keys, i),
                        _tuple_remove_at(node.vals, i),
                        Slice(node.subtrees, 0, i) \o <<m.val>>
                          \o Slice(node.subtrees, i + 2, Len(node.subtrees))),
             ReturnOptional)))

\* NodeWrangler._delete_recursive; val is an Optional[CID]
RECURSIVE _delete_recursive(_, _, _, _, _)
_delete_recursive(ns, node, key, kh, tree_height) ==
  IF kh > tree_height THEN Ok(ns, _to_optional(node))
  ELSE
    With(gte_index(node, key), LAMBDA i :
      IF kh < tree_height THEN
        IF node.subtrees[i + 1] = None THEN Ok(ns, _to_optional(node))
        ELSE
          Then(get_node(ns, node.subtrees[i + 1]), LAMBDA g :
          Then(_delete_recursive(g.ns, g.val, key, kh, tree_height - 1), LAMBDA rec :
          Then(stored_new(rec.ns, node.keys, node.vals,
                          _tuple_replace_at(node.subtrees, i, rec.val)),
               ReturnOptional)))
      ELSE IF i = Len(node.keys) \/ node.keys[i + 1] # key
        THEN Ok(ns, _to_optional(node))
      ELSE
        Then(_merge(ns, node.subtrees[i + 1], node.subtrees[i + 2]), LAMBDA m :
        Then(stored_new(m.ns,
                        _tuple_remove_at(node.keys, i),
                        _tuple_remove_at(node.vals, i),
                        Slice(node.subtrees, 0, i) \o <<m.val>>
                          \o Slice(node.subtrees, i + 2, Len(node.subtrees))),
             ReturnOptional)))

\* variant: nothing is stripped from the top of the tree
_squash_top_strips_nothing(ns, node_cid) ==
  Then(get_node(ns, node_cid), LAMBDA g : Ok(g.ns, node_cid))

\* NodeWrangler._squash_top; val is an Optional[CID]
RECURSIVE _squash_top(_, _)
_squash_top(ns, node_cid) ==
  Then(get_node(ns, node_cid), LAMBDA g :
    IF g.val.keys # <<>> THEN Ok(g.ns, node_cid)
    ELSE IF g.val.subtrees[1] = None THEN Ok(g.ns, node_cid)
    ELSE _squash_top(g.ns, g.val.subtrees[1]))

\* NodeWrangler.del_record; val is the returned root CID
\* variant: the top of the tree is left as _delete_recursive made it
del_record_unsquashed(ns, root_cid, key) ==
  Then(get_node(ns, root_cid), LAMBDA g :
  With(height(g.val), LAMBDA h :
    IF h.st # "ok" THEN Raise(g.ns, h.st) ELSE
    Then(_delete_recursive(g.ns, g.val, key, key_height(key), h.val), LAMBDA d :
    Then(get_node(d.ns, d.val), ReturnCid))))

del_record(ns, root_cid, key) ==
  Then(get_node(ns, root_cid), LAMBDA g :
  With(height(g.val), LAMBDA h :
    IF h.st # "ok" THEN Raise(g.ns, h.st) ELSE
    Then(_delete_recursive(g.ns, g.val, key, key_height(key), h.val), LAMBDA d :
    Then(_squash_top(d.ns, d.val), LAMBDA sq :
    Then(get_node(sq.ns, sq.val), ReturnCid)))))

\* ------------------------------------------------------------ NodeWalker
\* A walker is its stack, a sequence of StackFrame records, top last.
StackFrame(node, lpath, rpath, idx) ==
  [node |-> node, lpath |-> lpath, rpath |-> rpath, idx |-> idx]

\* NodeWalker.__init__; val is the walker
NodeWalker(ns, root_cid, lpath, rpath) ==
  IF root_cid = None
    THEN Ok(ns, <<StackFrame(empty_root, lpath, rpath, 0)>>)
    ELSE Then(get_node(ns, root_cid), LAMBDA g :
           Ok(g.ns, <<StackFrame(g.val, lpath, rpath, 0)>>))

frame(w) == w[Len(w)]

w_lpath(w) ==
  IF frame(w).idx = 0 THEN frame(w).lpath ELSE frame(w).node.keys[frame(w).idx]

w_lval(w) ==
  IF frame(w).idx = 0 THEN None ELSE <<frame(w).node.vals[frame(w).idx]>>

w_subtree(w) == frame(w).node.subtrees[frame(w).idx + 1]

w_rpath(w) ==
  IF frame(w).idx = Len(frame(w).node.keys)
    THEN frame(w).rpath
    ELSE frame(w).node.keys[frame(w).idx + 1]

w_rval(w) ==
  IF frame(w).idx = Len(frame(w).node.vals)
    THEN None
    ELSE <<frame(w).node.vals[frame(w).idx + 1]>>

\* variant: every cursor counts as final
is_final_always(w) == TRUE

is_final(w) ==
  \/ w = <<>>
  \/ (w_subtree(w) = None /\ w_rpath(w) = w[1].rpath)

can_go_right(w) == (frame(w).idx + 1) < Len(frame(w).node.subtrees)

step_right(w) == [w EXCEPT ![Len(w)].idx = @ + 1]

\* variant: the end of a node is the end of the walk
right_or_up_stops(w) ==
  IF ~can_go_right(w)
    THEN [st |-> "StopIteration", val |-> <<>>]
    ELSE [st |-> "ok", val |-> step_right(w)]

\* NodeWalker.right_or_up
RECURSIVE right_or_up(_)
right_or_up(w) ==
  IF ~can_go_right(w)
    THEN IF Len(w) = 1
           THEN [st |-> "StopIteration", val |-> <<>>]
           ELSE right_or_up(SubSeq(w, 1, Len(w) - 1))
    ELSE [st |-> "ok", val |-> step_right(w)]

\* variant: idx is moved before the check
right_moves_first(w) ==
  IF ~can_go_right(w)
    THEN [st |-> "Exception", val |-> step_right(w)]
    ELSE [st |-> "ok", val |-> step_right(w)]

\* NodeWalker.right
right(w) ==
  IF ~can_go_right(w)
    THEN [st |-> "Exception", val |-> w]
    ELSE [st |-> "ok", val |-> step_right(w)]

\* variant: the new frame takes the bounds of a root frame
down_unbounded(ns, w) ==
  IF w_subtree(w) = None THEN [st |-> "Exception", val |-> w, ns |-> ns]
  ELSE With(get_node(ns, w_subtree(w)), LAMBDA g :
         IF g.st # "ok" THEN [st |-> g.st, val |-> w, ns |-> g.ns]
         ELSE Ok(g.ns, Append(w, StackFrame(g.val, PATH_MIN, PATH_MAX, 0))))

\* NodeWalker.down; val is the walker
down(ns, w) ==
  IF w_subtree(w) = None THEN [st |-> "Exception", val |-> w, ns |-> ns]
  ELSE With(get_node(ns, w_subtree(w)), LAMBDA g :
         IF g.st # "ok" THEN [st |-> g.st, val |-> w, ns |-> g.ns]
         ELSE Ok(g.ns, Append(w, StackFrame(g.val, w_lpath(w), w_rpath(w), 0))))

\* NodeWalker.subtree_walker
subtree_walker(ns, w) == NodeWalker(ns, w_subtree(w), w_lpath(w), w_rpath(w))

\* "while self.subtree: self.down()"
RECURSIVE down_all(_, _)
down_all(ns, w) ==
  IF w_subtree(w) = None THEN Ok(ns, w)
  ELSE Then(down(ns, w), LAMBDA d : down_all(d.ns, d.val))

\* NodeWalker.next_kv; val is <<walker, <<lpath, lval>>>>
next_kv(ns, w) ==
  Then(down_all(ns, w), LAMBDA d :
  With(right_or_up(d.val), LAMBDA r :
    IF r.st # "ok" THEN Raise(d.ns, r.st)
    ELSE Ok(d.ns, <<r.val, <<w_lpath(r.val), w_lval(r.val)>>>>)))

\* NodeWalker.iter_kv, run to exhaustion; val is the sequence of the pairs
\* yielded after those of acc
RECURSIVE iter_kv(_, _, _)
iter_kv(ns, w, acc) ==
  IF is_final(w) THEN Ok(ns, acc)
  ELSE Then(next_kv(ns, w), LAMBDA n :
         iter_kv(n.ns, n.val[1], Append(acc, n.val[2])))

\* "while self.subtree: self.down(); yield self.frame.node" of iter_nodes;
\* val is <<walker, nodes yielded so far>>
RECURSIVE down_all_yield(_, _, _)
down_all_yield(ns, w, acc) ==
  IF w_subtree(w) = None THEN Ok(ns, <<w, acc>>)
  ELSE Then(down(ns, w), LAMBDA d :
         down_all_yield(d.ns, d.val, Append(acc, frame(d.val).node)))

\* the outer while loop of NodeWalker.iter_nodes
RECURSIVE iter_nodes_loop(_, _, _)
iter_nodes_loop(ns, w, acc) ==
  IF is_final(w) THEN Ok(ns, acc)
  ELSE Then(down_all_yield(ns, w, acc), LAMBDA d :
       With(right_or_up(d.val[1]), LAMBDA r :
         IF r.st # "ok" THEN Raise(d.ns, r.st)
         ELSE iter_nodes_loop(d.ns, r.val, d.val[2])))

\* NodeWalker.iter_nodes, run to exhaustion; val is the sequence of nodes
iter_nodes(ns, w) == iter_nodes_loop(ns, w, <<frame(w).node>>)

\* set(NodeWalker.iter_node_cids()); val is the set of CIDs
iter_node_cids(ns, w) ==
  Then(iter_nodes(ns, w), LAMBDA r :
    Ok(r.ns, {cid(r.val[i]) : i \in 1..Len(r.val)}))

\* NodeWalker.height
w_height(w) == height(frame(w).node)

\* "while self.rpath < start: self.right_or_up()" of iter_kv_range
RECURSIVE range_right_or_up(_, _)
range_right_or_up(w, start) ==
  IF ~StrLt(w_rpath(w), start) THEN [st |-> "ok", val |-> w]
  ELSE With(right_or_up(w), LAMBDA r :
         IF r.st # "ok" THEN r ELSE range_right_or_up(r.val, start))

\* the "while True" loop of iter_kv_range; val is the walker at the break
RECURSIVE range_seek(_, _, _)
range_seek(ns, w, start) ==
  With(range_right_or_up(w, start), LAMBDA r :
    IF r.st # "ok" THEN Raise(ns, r.st)
    ELSE IF w_subtree(r.val) = None THEN Ok(ns, r.val)
    ELSE Then(down(ns, r.val), LAMBDA d : range_seek(d.ns, d.val, start)))

\* "for k, v in self.iter_kv(): if k > end or (not end_inclusive and k ==
\* end): break; yield k, v" of iter_kv_range
RECURSIVE range_yield(_, _, _, _, _)
range_yield(ns, w, end, end_inclusive, acc) ==
  IF is_final(w) THEN Ok(ns, acc)
  ELSE Then(next_kv(ns, w), LAMBDA n :
         IF StrGt(n.val[2][1], end) \/ (~end_inclusive /\ n.val[2][1] = end)
           THEN Ok(n.ns, acc)
           ELSE range_yield(n.ns, n.val[1], end, end_inclusive,
                            Append(acc, n.val[2])))

\* variant: the walker is moved right to start but never down into the
\* subtree start falls in
iter_kv_range_stays_up(ns, w, start, end, end_inclusive) ==
  With(range_right_or_up(w, start), LAMBDA r :
    IF r.st # "ok" THEN Raise(ns, r.st)
    ELSE range_yield(ns, r.val, end, end_inclusive, <<>>))

\* NodeWalker.iter_kv_range, run to exhaustion; val is the sequence of the
\* pairs yielded
iter_kv_range(ns, w, start, end, end_inclusive) ==
  Then(range_seek(ns, w, start), LAMBDA s :
    range_yield(s.ns, s.val, end, end_inclusive, <<>>))

\* What find_rpath leaves: st and val as for any call (val the Optional
\* value returned), w the walker as the call left it.
Found(st, ns, w, val) == [st |-> st, val |-> val, ns |-> ns, w |-> w]

\* "while self.rpath < rpath: if not self.can_go_right: return None;
\* self.right()" of find_rpath; st "return" when it returns None
RECURSIVE find_right(_, _)
find_right(w, rpath) ==
  IF ~StrLt(w_rpath(w), rpath) THEN [st |-> "ok", val |-> w]
  ELSE IF ~can_go_right(w) THEN [st |-> "return", val |-> w]
  ELSE find_right(step_right(w), rpath)

\* NodeWalker.find_rpath
RECURSIVE find_rpath(_, _, _)
find_rpath(ns, w, rpath) ==
  With(w_height(w), LAMBDA h :
    IF h.st # "ok" THEN Found(h.st, ns, w, None)
    ELSE IF key_height(rpath) > h.val THEN Found("ok", ns, w, None)
    ELSE
  With(find_right(w, rpath), LAMBDA r :
    IF r.st = "return" THEN Found("ok", ns, r.val, None)
    ELSE IF w_rpath(r.val) = rpath THEN Found("ok", ns, r.val, w_rval(r.val))
    ELSE IF w_subtree(r.val) = None THEN Found("ok", ns, r.val, None)
    ELSE
  With(down(ns, r.val), LAMBDA d :
    IF d.st # "ok" THEN Found(d.st, d.ns, r.val, None)
    ELSE find_rpath(d.ns, d.val, rpath))))

\* set(NodeWalker(ns, root).iter_node_cids())
NodeCidsOf(ns, root_cid) ==
  Then(NodeWalker(ns, root_cid, PATH_MIN, PATH_MAX), LAMBDA w :
    iter_node_cids(w.ns, w.val))

\* ------------------------------------------------------------------ diff
\* very_slow_mst_diff; val is <<created, deleted>>
very_slow_mst_diff(ns, root_a, root_b) ==
  Then(NodeCidsOf(ns, root_a), LAMBDA a_nodes :
  Then(NodeCidsOf(a_nodes.ns, root_b), LAMBDA b_nodes :
    Ok(b_nodes.ns, <<b_nodes.val \ a_nodes.val, a_nodes.val \ b_nodes.val>>)))

EMPTY_NODE_CID == cid(empty_root)

\* The state of a running _mst_diff_recursive: the two result sets, the two
\* cursors and the NodeStore; st is "ok" while it runs normally.
\* depth counts the calls of _mst_diff_recursive nested inside this one.
DiffState(st, ns, created, deleted, a, b) ==
  [st |-> st, ns |-> ns, created |-> created, deleted |-> deleted,
   a |-> a, b |-> b, depth |-> 0]

\* "while a.rpath < b.rpath and not a.is_final" of _mst_diff_recursive
RECURSIVE catch_up_a(_)
catch_up_a(S) ==
  IF ~(StrLt(w_rpath(S.a), w_rpath(S.b)) /\ ~is_final(S.a)) THEN S
  ELSE IF w_subtree(S.a) # None
    THEN With(down(S.ns, S.a), LAMBDA d :
           IF d.st # "ok" THEN [S EXCEPT !.st = d.st, !.ns = d.ns]
           ELSE catch_up_a([S EXCEPT !.ns = d.ns, !.a = d.val,
                              !.deleted = @ \cup {cid(frame(d.val).node)}]))
    ELSE With(right(S.a), LAMBDA r :
           IF r.st # "ok" THEN [S EXCEPT !.st = r.st]
           ELSE catch_up_a([S EXCEPT !.a = r.val]))

\* "while b.rpath < a.rpath and not b.is_final" of _mst_diff_recursive
RECURSIVE catch_up_b(_)
catch_up_b(S) ==
  IF ~(StrLt(w_rpath(S.b), w_rpath(S.a)) /\ ~is_final(S.b)) THEN S
  ELSE IF w_subtree(S.b) # None
    THEN With(down(S.ns, S.b), LAMBDA d :
           IF d.st # "ok" THEN [S EXCEPT !.st = d.st, !.ns = d.ns]
           ELSE catch_up_b([S EXCEPT !.ns = d.ns, !.b = d.val,
                              !.created = @ \cup {cid(frame(d.val).node)}]))
    ELSE With(right(S.b), LAMBDA r :
           IF r.st # "ok" THEN [S EXCEPT !.st = r.st]
           ELSE catch_up_b([S EXCEPT !.b = r.val]))

\* "while a.rpath != b.rpath" of _mst_diff_recursive. An iteration that
\* leaves both cursors where they were repeats forever: st "diverges".
RECURSIVE catch_up(_)
catch_up(S) ==
  IF w_rpath(S.a) = w_rpath(S.b) THEN S
  ELSE Then(catch_up_a(S), LAMBDA Sa :
       Then(catch_up_b(Sa), LAMBDA Sb :
         IF Sb.a = S.a /\ Sb.b = S.b THEN [Sb EXCEPT !.st = "diverges"]
         ELSE catch_up(Sb)))

RECURSIVE _mst_diff_recursive(_, _, _, _, _)
\* the "while True" loop of _mst_diff_recursive
RECURSIVE diff_loop(_)
diff_loop(S) ==
  Then(catch_up(S), LAMBDA S1 :
  With(subtree_walker(S1.ns, S1.a), LAMBDA sa :
    IF sa.st # "ok" THEN [S1 EXCEPT !.st = sa.st, !.ns = sa.ns] ELSE
  With(subtree_walker(sa.ns, S1.b), LAMBDA sb :
    IF sb.st # "ok" THEN [S1 EXCEPT !.st = sb.st, !.ns = sb.ns] ELSE
  With(_mst_diff_recursive(sb.ns, S1.created, S1.deleted, sa.val, sb.val),
       LAMBDA R :
  Then([S1 EXCEPT !.st = R.st, !.ns = R.ns,
                  !.created = R.created, !.deleted = R.deleted,
                  !.depth = IF R.depth + 1 > @ THEN R.depth + 1 ELSE @],
       LAMBDA S2 :
    IF w_rpath(S2.a) = S2.a[1].rpath /\ w_rpath(S2.b) = S2.b[1].rpath THEN S2
    ELSE
  With(right(S2.a), LAMBDA ra :
    IF ra.st # "ok" THEN [S2 EXCEPT !.st = ra.st] ELSE
  With(right(S2.b), LAMBDA rb :
    IF rb.st # "ok" THEN [S2 EXCEPT !.st = rb.st, !.a = ra.val]
    ELSE diff_loop([S2 EXCEPT !.a = ra.val, !.b = rb.val]))))))))

\* _mst_diff_recursive; the result is the DiffState at return (or raise)
_mst_diff_recursive(ns, created, deleted, a, b) ==
  IF frame(a).node = frame(b).node
    THEN DiffState("ok", ns, created, deleted, a, b)
  ELSE IF is_empty(frame(a).node)
    THEN With(iter_node_cids(ns, b), LAMBDA n :
           IF n.st # "ok" THEN DiffState(n.st, n.ns, created, deleted, a, b)
           ELSE DiffState("ok", n.ns, created \cup n.val, deleted, a, b))
  ELSE IF is_empty(frame(b).node)
    THEN With(iter_node_cids(ns, a), LAMBDA n :
           IF n.st # "ok" THEN DiffState(n.st, n.ns, created, deleted, a, b)
           ELSE DiffState("ok", n.ns, created, deleted \cup n.val, a, b))
  ELSE diff_loop(DiffState("ok", ns,
                           created \cup {cid(frame(b).node)},
                           deleted \cup {cid(frame(a).node)}, a, b))

\* variant: the empty root of a is added to created instead of deleted
mst_diff_empty_a_created(ns, root_a, root_b) ==
  Then(NodeWalker(ns, root_a, PATH_MIN, PATH_MAX), LAMBDA wa :
  Then(NodeWalker(wa.ns, root_b, PATH_MIN, PATH_MAX), LAMBDA wb :
  With(_mst_diff_recursive(wb.ns, {}, {}, wa.val, wb.val), LAMBDA R :
    IF R.st # "ok" THEN Raise(R.ns, R.st) ELSE
    LET middle == R.created \cap R.deleted
        created == R.created \ middle
        deleted == R.deleted \ middle
    IN Ok(R.ns,
          << IF root_a # root_b /\ EMPTY_NODE_CID \in {root_a, root_b}
               THEN created \cup {EMPTY_NODE_CID} ELSE created,
             deleted >>))))

\* mst_diff; val is <<created, deleted>>
mst_diff(ns, root_a, root_b) ==
  Then(NodeWalker(ns, root_a, PATH_MIN, PATH_MAX), LAMBDA wa :
  Then(NodeWalker(wa.ns, root_b, PATH_MIN, PATH_MAX), LAMBDA wb :
  With(_mst_diff_recursive(wb.ns, {}, {}, wa.val, wb.val), LAMBDA R :
    IF R.st # "ok" THEN Raise(R.ns, R.st) ELSE
    LET middle == R.created \cap R.deleted
        created == R.created \ middle
        deleted == R.deleted \ middle
    IN Ok(R.ns,
          << IF root_b = EMPTY_NODE_CID /\ root_a # EMPTY_NODE_CID
               THEN created \cup {EMPTY_NODE_CID} ELSE created,
             IF root_a = EMPTY_NODE_CID /\ root_b # EMPTY_NODE_CID
               THEN deleted \cup {EMPTY_NODE_CID} ELSE deleted >>))))

RecordDelta(delta_type, path, prior_value, later_value) ==
  [delta_type |-> delta_type, path |-> path,
   prior_value |-> prior_value, later_value |-> later_value]

\* "sum((list(zip(node.keys, node.vals)) for node in map(ns.get_node, cids)),
\* [])"; val is the set of the pairs <<key, value>> of the list. dict() of it
\* keeps one value per key; where two nodes of the set hold the same key with
\* different values, which one depends on the iteration order of the set,
\* and every pair is kept here.
RECURSIVE nodes_kv(_, _, _)
nodes_kv(ns, cids, acc) ==
  IF cids = {} THEN Ok(ns, acc)
  ELSE With(CHOOSE c \in cids : TRUE, LAMBDA c :
       Then(get_node(ns, c), LAMBDA g :
         nodes_kv(g.ns, cids \ {c},
                  acc \cup {<<g.val.keys[i], g.val.vals[i]>> :
                              i \in 1..Len(g.val.keys)})))

\* dict.keys() of a set of pairs
kv_keys(kv) == {p[1] : p \in kv}

\* record_diff, run to exhaustion; val is the set of the deltas yielded
record_diff(ns, created, deleted) ==
  Then(nodes_kv(ns, created, {}), LAMBDA c :
  Then(nodes_kv(c.ns, deleted, {}), LAMBDA d :
    Ok(d.ns,
       {RecordDelta("CREATED", p[1], None, <<p[2]>>) :
          p \in {q \in c.val : q[1] \notin kv_keys(d.val)}}
       \cup
       {RecordDelta("UPDATED", p[1][1], <<p[2][2]>>, <<p[1][2]>>) :
          p \in {q \in c.val \X d.val : q[1][1] = q[2][1] /\ q[2][2] # q[1][2]}}
       \cup
       {RecordDelta("DELETED", p[1], <<p[2]>>, None) :
          p \in {q \in d.val : q[1] \notin kv_keys(c.val)}})))

\* ----------------------------------------------------------------- proof
\* find_rpath_and_build_proof; val is <<value, proof>>
find_rpath_and_build_proof(ns, root_cid, rpath) ==
  Then(NodeWalker(ns, root_cid, PATH_MIN, PATH_MAX), LAMBDA w :
  Then(find_rpath(w.ns, w.val, rpath), LAMBDA f :
    Ok(f.ns, <<f.val, {cid(f.w[i].node) : i \in 1..Len(f.w)}>>)))

\* build_exclusion_proof; val is the proof
build_exclusion_proof(ns, root_cid, rpath) ==
  Then(find_rpath_and_build_proof(ns, root_cid, rpath), LAMBDA r :
    IF r.val[1] # None THEN Raise(r.ns, "ProofError")
    ELSE Ok(r.ns, r.val[2]))

\* build_inclusion_proof; val is the proof
build_inclusion_proof(ns, root_cid, rpath) ==
  Then(find_rpath_and_build_proof(ns, root_cid, rpath), LAMBDA r :
    IF r.val[1] = None THEN Raise(r.ns, "ProofError")
    ELSE Ok(r.ns, r.val[2]))

\* "try: ... except KeyError: raise InvalidProof" around find_rpath
except_KeyError(f) ==
  IF f.st = "KeyError" THEN Raise(f.ns, "InvalidProof")
  ELSE IF f.st # "ok" THEN Raise(f.ns, f.st)
  ELSE Ok(f.ns, f.val)

\* verify_inclusion; the walker is made outside the try block
verify_inclusion(ns, root_cid, rpath) ==
  Then(NodeWalker(ns, root_cid, PATH_MIN, PATH_MAX), LAMBDA w :
  Then(except_KeyError(find_rpath(w.ns, w.val, rpath)), LAMBDA f :
    IF f.val = None THEN Raise(f.ns, "InvalidProof")
    ELSE Ok(f.ns, None)))

\* verify_exclusion; the walker is made outside the try block
verify_exclusion(ns, root_cid, rpath) ==
  Then(NodeWalker(ns, root_cid, PATH_MIN, PATH_MAX), LAMBDA w :
  Then(except_KeyError(find_rpath(w.ns, w.val, rpath)), LAMBDA f :
    IF f.val # None THEN Raise(f.ns, "InvalidProof")
    ELSE Ok(f.ns, None)))

\* ------------------------------------------------------- the test program
\* random_test of mst_test.py: one NodeStore over one MemoryBlockStore, a
\* root changed by put_record and del_record, a root_a saved from it along
\* the way, and at the end mst_diff between the two in both directions.
VARIABLES
  ns,       \* the NodeStore: [bs, cache]
  root,     \* the root CID the caller holds
  root_a,   \* a root CID returned earlier, kept by the caller
  dict,     \* the abstract dictionary of root, updated in parallel
  dict_a,   \* the abstract dictionary root_a had when it was returned
  putsOnly, \* root was built by puts of absent keys only
  nops,     \* number of put_record / del_record calls made
  last      \* the last call made and what it returned

vars == <<ns, root, root_a, dict, dict_a, putsOnly, nops, last>>

\* The variables of the two other programs below; random_test leaves them
\* alone, as they leave alone the variables of random_test.
VARIABLES
  given,    \* the node or the bytes a conversion starts from
  made,     \* what converting given returned
  again,    \* what converting made back returned
  _state,   \* MemoryBlockStore._state
  puts,     \* per key, the value of its last successful put_block, if no
            \* del_block of the key came after it
  call      \* the last MemoryBlockStore call made and what it returned

\* The variables of the programs after those.
VARIABLES
  upper,    \* OverlayBlockStore.upper, the _state of a MemoryBlockStore
  lower,    \* OverlayBlockStore.lower, the _state of a MemoryBlockStore
  ocall,    \* the last OverlayBlockStore call made and what it returned
  vgiven,   \* the int or the bytes a varint conversion starts from
  vmade,    \* what converting vgiven returned
  vagain,   \* what converting vmade back returned
  file,     \* the bytes of the file given to ReadOnlyCARBlockStore
  car,      \* the ReadOnlyCARBlockStore: how __init__ ended, validate_hashes
            \* and block_offsets
  ccall,    \* the last ReadOnlyCARBlockStore call made and what it returned
  cns,      \* a NodeStore [bs, cache] whose BlockStore is also called directly
  ncall,    \* the last NodeStore.get_node call made and what it returned
  pns,      \* the NodeStore [bs, cache] of the NodeWrangler of src/mst.py
  proot,    \* the root CID its last put returned
  pcall     \* the last put made on it and what it returned

codecVars == <<given, made, again>>

overlayVars == <<upper, lower, ocall>>

varintVars == <<vgiven, vmade, vagain>>

carVars == <<file, car, ccall>>

cacheVars == <<cns, ncall>>

protoVars == <<pns, proot, pcall>>

\* the variables of the programs other than the first three
moreVars == <<overlayVars, varintVars, carVars, cacheVars, protoVars>>

storeVars == <<_state, puts, call>>

allVars == <<vars, codecVars, storeVars, moreVars>>

\* a conversion not made yet
NotYet == [st |-> "none", val |-> None]

\* nothing to convert
NotGiven == [kind |-> "none", node |-> empty_root, bytes |-> <<>>]

\* no conversion is under way
CodecIdle == given = NotGiven /\ made = NotYet /\ again = NotYet

\* no MemoryBlockStore call has been made
NoBlockCall ==
  [op |-> "none", key |-> <<>>, value |-> <<>>, st |-> "ok", ret |-> <<>>,
   before |-> <<>>, had |-> <<>>]

\* the MemoryBlockStore of the third program is not in use
StoreIdle == _state = <<>> /\ puts = <<>> /\ call = NoBlockCall

\* no OverlayBlockStore call has been made
NoOverlayCall ==
  [op |-> "none", key |-> <<>>, value |-> <<>>, st |-> "ok", ret |-> <<>>,
   before |-> [upper |-> <<>>, lower |-> <<>>]]

\* no OverlayBlockStore is in use
OverlayIdle == upper = <<>> /\ lower = <<>> /\ ocall = NoOverlayCall

\* a varint conversion not made yet
NoVarint == [st |-> "none", n |-> PyInt(<<>>), bytes |-> <<>>, pos |-> 0]

\* nothing to convert
NoVarintGiven == [kind |-> "none", n |-> PyInt(<<>>), data |-> <<>>]

\* no varint conversion is under way
VarintIdle == vgiven = NoVarintGiven /\ vmade = NoVarint /\ vagain = NoVarint

\* no ReadOnlyCARBlockStore call has been made
NoCarCall ==
  [op |-> "none", key |-> <<>>, value |-> <<>>, st |-> "ok", ret |-> <<>>,
   before |-> <<>>]

\* no ReadOnlyCARBlockStore constructed yet
NoCar == [st |-> "none", validate_hashes |-> TRUE, block_offsets |-> <<>>]

\* no archive is in use
CarIdle == file = <<>> /\ car = NoCar /\ ccall = NoCarCall

\* no NodeStore.get_node call has been made
NoNodeCall ==
  [op |-> "none", cid |-> None, st |-> "ok", ret |-> empty_root,
   before |-> [bs |-> <<>>, cache |-> <<>>]]

\* the NodeStore of the seventh program is not in use
CacheIdle == cns = [bs |-> <<>>, cache |-> <<>>] /\ ncall = NoNodeCall

\* no put has been made on the NodeWrangler of src/mst.py
NoProtoCall ==
  [op |-> "none", key |-> <<>>, val |-> 0, before |-> None, st |-> "ok",
   ret |-> None, n |-> 0]

\* the NodeWrangler of src/mst.py is not in use
ProtoIdle ==
  pns = [bs |-> <<>>, cache |-> <<>>] /\ proot = None /\ pcall = NoProtoCall

\* the programs other than the first three are not in use
MoreIdle == OverlayIdle /\ VarintIdle /\ CarIdle /\ CacheIdle /\ ProtoIdle

NoCall ==
  [op |-> "none", key |-> <<>>, val |-> 0, absent |-> FALSE,
   before |-> None, a |-> None, b |-> None,
   st |-> "ok", ret |-> None, created |-> {}, deleted |-> {}]

\* bs = MemoryBlockStore(); ns = NodeStore(bs); root = ns.get_node(None).cid
Init ==
  LET g == get_node([bs |-> <<>>, cache |-> <<>>], None) IN
  /\ ns = g.ns
  /\ root = cid(g.val)
  /\ root_a = cid(g.val)
  /\ dict = <<>>
  /\ dict_a = <<>>
  /\ putsOnly = TRUE
  /\ nops = 0
  /\ last = NoCall
  /\ CodecIdle
  /\ StoreIdle
  /\ MoreIdle

\* root = nw.put_record(root, k, v)
Put(k, v) ==
  /\ last.op # "diff"
  /\ nops < MaxOps
  /\ UNCHANGED <<codecVars, storeVars, moreVars>>
  /\ \E r \in {put_record(ns, root, k, v)} :
       /\ nops' = nops + 1
       /\ ns' = r.ns
       /\ last' = [NoCall EXCEPT !.op = "put", !.key = k, !.val = v,
                                 !.absent = (k \notin DOMAIN dict),
                                 !.before = root, !.st = r.st, !.ret = r.val]
       /\ IF r.st = "ok"
            THEN /\ root' = r.val
                 /\ dict' = DictSet(dict, k, v)
                 /\ putsOnly' = (putsOnly /\ k \notin DOMAIN dict)
            ELSE UNCHANGED <<root, dict, putsOnly>>
       /\ UNCHANGED <<root_a, dict_a>>

\* root = nw.del_record(root, k)
Del(k) ==
  /\ last.op # "diff"
  /\ nops < MaxOps
  /\ UNCHANGED <<codecVars, storeVars, moreVars>>
  /\ \E r \in {del_record(ns, root, k)} :
       /\ nops' = nops + 1
       /\ ns' = r.ns
       /\ last' = [NoCall EXCEPT !.op = "del", !.key = k,
                                 !.absent = (k \notin DOMAIN dict),
                                 !.before = root, !.st = r.st, !.ret = r.val]
       /\ IF r.st = "ok"
            THEN /\ root' = r.val
                 /\ dict' = DictDel(dict, k)
                 /\ putsOnly' = FALSE
            ELSE UNCHANGED <<root, dict, putsOnly>>
       /\ UNCHANGED <<root_a, dict_a>>

\* root_a = root
Save ==
  /\ last.op # "diff"
  /\ root_a # root
  /\ root_a' = root
  /\ dict_a' = dict
  /\ last' = [NoCall EXCEPT !.op = "save"]
  /\ UNCHANGED <<ns, root, dict, putsOnly, nops>>
  /\ UNCHANGED <<codecVars, storeVars, moreVars>>

\* c, d = mst_diff(ns, a, b)
DiffCall(a, b) ==
  \E r \in {mst_diff(ns, a, b)} :
  /\ ns' = r.ns
  /\ last' = [NoCall EXCEPT !.op = "diff", !.a = a, !.b = b,
                            !.st = r.st,
                            !.created = IF r.st = "ok" THEN r.val[1] ELSE {},
                            !.deleted = IF r.st = "ok" THEN r.val[2] ELSE {}]
  /\ UNCHANGED <<root, root_a, dict, dict_a, putsOnly, nops>>
  /\ UNCHANGED <<codecVars, storeVars, moreVars>>

\* c, d = mst_diff(ns, root_a, root)
Diff == DiffCall(root_a, root)

\* e, f = mst_diff(ns, root, root_a)
DiffReverse == DiffCall(root, root_a)

Next ==
  \/ \E k \in Keys, v \in Vals : Put(k, v)
  \/ \E k \in Keys : Del(k)
  \/ Save
  \/ Diff
  \/ DiffReverse

Spec == Init /\ [][Next]_allVars

\* random_test has not been started
TestIdle ==
  /\ ns = [bs |-> <<>>, cache |-> <<>>]
  /\ root = None
  /\ root_a = None
  /\ dict = <<>>
  /\ dict_a = <<>>
  /\ putsOnly = TRUE
  /\ nops = 0
  /\ last = NoCall

\* ------------------------------------------- the serialisation round trip
\* A second program: one MSTNode, or one block of bytes, is converted by
\* MSTNode.serialised and MSTNode.deserialise and the result converted back.
\* Keys here are any str of at most MaxKeyLen characters out of NumBytes
\* ASCII characters (so str.encode and bytes.decode keep the character
\* codes), the empty str included.
ByteStrs == UNION {[1..n -> 1..NumBytes] : n \in 0..MaxKeyLen}

\* the Optional[CID] values given to subtrees
Links == {None, EMPTY_NODE_CID}

\* Python's tuple(f(x) for x in ...) over all f
TuplesOf(S, n) == [1..n -> S]

\* "keys strictly ascending"
Ascending(keys) == \A i \in 1..(Len(keys) - 1) : StrLt(keys[i], keys[i + 1])

\* the valid nodes of n keys: keys strictly ascending, as many vals as
\* keys, one subtree more
ValidNodes(n) ==
  {MSTNode(keys, [i \in 1..n |-> 1], subtrees) :
     keys \in {ks \in TuplesOf(ByteStrs, n) : Ascending(ks)},
     subtrees \in TuplesOf(Links, n + 1)}

\* the decoded DAG-CBOR maps {"e": [{k, p, t, v}...], "l": ...} of n
\* entries, each held as the one-item byte string it is encoded to
Blocks(n) ==
  {<<[l |-> l, e |-> e]>> :
     l \in Links,
     e \in TuplesOf([k : ByteStrs, p : 0..MaxKeyLen, t : {None}, v : {1}], n)}

CodecInit ==
  /\ \E n \in 0..MaxEntries :
       given \in {[NotGiven EXCEPT !.kind = "node", !.node = N] :
                    N \in ValidNodes(n)}
                 \cup {[NotGiven EXCEPT !.kind = "bytes", !.bytes = b] :
                         b \in Blocks(n)}
  /\ made = NotYet
  /\ again = NotYet
  /\ TestIdle
  /\ StoreIdle
  /\ MoreIdle

\* b = N.serialised
Serialise ==
  /\ given.kind = "node"
  /\ made.st = "none"
  /\ made' = [st |-> "ok", val |-> serialised(given.node)]
  /\ UNCHANGED <<given, again, vars, storeVars, moreVars>>

\* MSTNode.deserialise(b)
DeserialiseBack ==
  /\ given.kind = "node"
  /\ made.st # "none"
  /\ again.st = "none"
  /\ again' = deserialise(made.val)
  /\ UNCHANGED <<given, made, vars, storeVars, moreVars>>

\* N = MSTNode.deserialise(b)
Deserialise ==
  /\ given.kind = "bytes"
  /\ made.st = "none"
  /\ made' = deserialise(given.bytes)
  /\ UNCHANGED <<given, again, vars, storeVars, moreVars>>

\* N.serialised
SerialiseBack ==
  /\ given.kind = "bytes"
  /\ made.st = "ok"
  /\ again.st = "none"
  /\ again' = [st |-> "ok", val |-> serialised(made.val)]
  /\ UNCHANGED <<given, made, vars, storeVars, moreVars>>

CodecNext ==
  \/ Serialise
  \/ DeserialiseBack
  \/ Deserialise
  \/ SerialiseBack

CodecSpec == CodecInit /\ [][CodecNext]_allVars

\* -------------------------------------------- the MemoryBlockStore calls
\* A third program: put_block, get_block and del_block called in any order
\* on one MemoryBlockStore(). The keys are the one-byte strings, the values
\* the byte strings of at most one byte, b"" included.
BlockKeys == {k \in ByteStrs : Len(k) = 1}

BlockValues == {v \in ByteStrs : Len(v) <= 1}

\* bs = MemoryBlockStore()
StoreInit ==
  /\ _state = <<>>
  /\ puts = <<>>
  /\ call = NoBlockCall
  /\ TestIdle
  /\ CodecIdle
  /\ MoreIdle

\* bs.put_block(k, v)
PutBlock(k, v) ==
  \E r \in {put_block(_state, k, v)} :
    /\ _state' = r.val
    /\ puts' = IF r.st = "ok" THEN DictSet(puts, k, v) ELSE puts
    /\ call' = [NoBlockCall EXCEPT !.op = "put", !.key = k, !.value = v,
                                   !.st = r.st, !.before = _state,
                                   !.had = puts]
    /\ UNCHANGED <<vars, codecVars, moreVars>>

\* bs.get_block(k)
GetBlock(k) ==
  \E r \in {get_block(_state, k)} :
    /\ call' = [NoBlockCall EXCEPT !.op = "get", !.key = k, !.st = r.st,
                                   !.ret = r.val, !.before = _state,
                                   !.had = puts]
    /\ UNCHANGED <<_state, puts, vars, codecVars, moreVars>>

\* bs.del_block(k)
DelBlock(k) ==
  /\ _state' = del_block(_state, k)
  /\ puts' = DictDel(puts, k)
  /\ call' = [NoBlockCall EXCEPT !.op = "del", !.key = k,
                                 !.before = _state, !.had = puts]
  /\ UNCHANGED <<vars, codecVars, moreVars>>

StoreNext ==
  \/ \E k \in BlockKeys, v \in BlockValues : PutBlock(k, v)
  \/ \E k \in BlockKeys : GetBlock(k)
  \/ \E k \in BlockKeys : DelBlock(k)

StoreSpec == StoreInit /\ [][StoreNext]_allVars

\* ------------------------------------------- the OverlayBlockStore calls
\* A fourth program: put_block, get_block and del_block called in any order
\* on one OverlayBlockStore(upper, lower) over two MemoryBlockStores, the
\* lower one holding any blocks when the overlay is constructed.
Stores == UNION {[D -> BlockValues] : D \in SUBSET BlockKeys}

\* ov = OverlayBlockStore(MemoryBlockStore(), lower)
OverlayInit ==
  /\ upper = <<>>
  /\ lower \in Stores
  /\ ocall = NoOverlayCall
  /\ TestIdle
  /\ CodecIdle
  /\ StoreIdle
  /\ VarintIdle
  /\ CarIdle
  /\ CacheIdle
  /\ ProtoIdle

\* ov.put_block(k, v)
OverlayPut(k, v) ==
  \E r \in {Overlay_put_block([upper |-> upper, lower |-> lower], k, v)} :
    /\ upper' = r.ov.upper
    /\ lower' = r.ov.lower
    /\ ocall' = [NoOverlayCall EXCEPT !.op = "put", !.key = k, !.value = v,
                                      !.st = r.st,
                                      !.before = [upper |-> upper,
                                                  lower |-> lower]]
    /\ UNCHANGED <<vars, codecVars, storeVars, varintVars, carVars, cacheVars, protoVars>>

\* ov.get_block(k)
OverlayGet(k) ==
  \E r \in {Overlay_get_block([upper |-> upper, lower |-> lower], k)} :
    /\ ocall' = [NoOverlayCall EXCEPT !.op = "get", !.key = k, !.st = r.st,
                                      !.ret = r.val,
                                      !.before = [upper |-> upper,
                                                  lower |-> lower]]
    /\ UNCHANGED <<upper, lower, vars, codecVars, storeVars, varintVars, carVars, cacheVars, protoVars>>

\* ov.del_block(k)
OverlayDel(k) ==
  \E r \in {Overlay_del_block([upper |-> upper, lower |-> lower], k)} :
    /\ upper' = r.upper
    /\ lower' = r.lower
    /\ ocall' = [NoOverlayCall EXCEPT !.op = "del", !.key = k,
                                      !.before = [upper |-> upper,
                                                  lower |-> lower]]
    /\ UNCHANGED <<vars, codecVars, storeVars, varintVars, carVars, cacheVars, protoVars>>

OverlayNext ==
  \/ \E k \in BlockKeys, v \in BlockValues : OverlayPut(k, v)
  \/ \E k \in BlockKeys : OverlayGet(k)
  \/ \E k \in BlockKeys : OverlayDel(k)

OverlaySpec == OverlayInit /\ [][OverlayNext]_allVars

\* ------------------------------------------------- the varint round trip
\* A fifth program, after test_varint.py: one int is converted by
\* encode_varint and the result read back by decode_varint from a stream
\* that may hold more bytes after it, or one stream of bytes is read by
\* decode_varint and the result converted back by encode_varint.
MaxVarintLen == 10

\* the values given to the 7-bit groups of an int
Groups == {0, 1, 127}

\* the ints of at most MaxVarintLen groups, and -1
PyInts(len) ==
  {PyInt(d) : d \in {x \in TuplesOf(Groups, len) : Normalised(x) = x}}
  \cup {[neg |-> TRUE, d |-> <<1>>]}

\* the bytes with the continuation bit set, and those without
ContBytes == {128, 255}

FinalBytes == {0, 1, 127}

\* what a stream holds after a varint
Trailing == {<<>>, <<0>>, <<255>>}

\* the streams: len bytes with the continuation bit set, then at most one
\* byte without it, then more bytes or none
Streams(len) ==
  {c \o f \o t : c \in TuplesOf(ContBytes, len),
                 f \in {<<>>} \cup TuplesOf(FinalBytes, 1),
                 t \in Trailing}

VarintInit ==
  /\ \E len \in 0..MaxVarintLen :
       vgiven \in {[NoVarintGiven EXCEPT !.kind = "int", !.n = n] :
                     n \in PyInts(len)}
                  \cup {[NoVarintGiven EXCEPT !.kind = "bytes", !.data = b] :
                          b \in Streams(len)}
  /\ vmade = NoVarint
  /\ vagain = NoVarint
  /\ TestIdle
  /\ CodecIdle
  /\ StoreIdle
  /\ OverlayIdle
  /\ CarIdle
  /\ CacheIdle
  /\ ProtoIdle

\* b = encode_varint(n)
Encode ==
  /\ vgiven.kind = "int"
  /\ vmade.st = "none"
  /\ \E r \in {encode_varint(vgiven.n)} :
       vmade' = [NoVarint EXCEPT !.st = r.st, !.bytes = r.val]
  /\ UNCHANGED <<vgiven, vagain, vars, codecVars, storeVars, overlayVars, carVars, cacheVars, protoVars>>

\* decode_varint(io.BytesIO(b + t))
DecodeBack(t) ==
  /\ vgiven.kind = "int"
  /\ vmade.st = "ok"
  /\ vagain.st = "none"
  /\ \E r \in {decode_varint([data |-> vmade.bytes \o t, pos |-> 0])} :
       vagain' = [NoVarint EXCEPT !.st = r.st, !.n = r.val, !.pos = r.pos]
  /\ UNCHANGED <<vgiven, vmade, vars, codecVars, storeVars, overlayVars, carVars, cacheVars, protoVars>>

\* n = decode_varint(io.BytesIO(b))
Decode ==
  /\ vgiven.kind = "bytes"
  /\ vmade.st = "none"
  /\ \E r \in {decode_varint([data |-> vgiven.data, pos |-> 0])} :
       vmade' = [NoVarint EXCEPT !.st = r.st, !.n = r.val, !.pos = r.pos]
  /\ UNCHANGED <<vgiven, vagain, vars, codecVars, storeVars, overlayVars, carVars, cacheVars, protoVars>>

\* encode_varint(n)
EncodeBack ==
  /\ vgiven.kind = "bytes"
  /\ vmade.st = "ok"
  /\ vagain.st = "none"
  /\ \E r \in {encode_varint(vmade.n)} :
       vagain' = [NoVarint EXCEPT !.st = r.st, !.bytes = r.val]
  /\ UNCHANGED <<vgiven, vmade, vars, codecVars, storeVars, overlayVars, carVars, cacheVars, protoVars>>

VarintNext ==
  \/ Encode
  \/ \E t \in Trailing : DecodeBack(t)
  \/ Decode
  \/ EncodeBack

VarintSpec == VarintInit /\ [][VarintNext]_allVars

\* ------------------------------------------ the ReadOnlyCARBlockStore calls
\* A sixth program: a ReadOnlyCARBlockStore is constructed over one file and
\* get_block, put_block and del_block are called on it. The file is a header
\* (well formed or not), at most MaxBlocks block sections (well formed or
\* not) and a tail.
MaxBlocks == 2

\* varint(len(payload)) + payload
Framed(length, payload) == encode_varint(PyInt(int_groups(length))).val \o payload

\* the block values of the archives
CarValues == {<<1>>, <<2>>}

\* the CID bytes of a block value
CidOf(v) == CIDV1_DAG_CBOR_SHA256_32_PFX \o sha256(v)

\* CID bytes with the raw codec 0x55 in place of dag-cbor
RawCidOf(v) == <<1, 85, 18, 32>> \o sha256(v)

Headers ==
  { Framed(2, <<1, 1>>),    \* {version: 1, roots: [r]}
    Framed(2, <<2, 1>>),    \* version 2
    Framed(2, <<1, 0>>),    \* no root
    Framed(2, <<1, 2>>),    \* two roots
    Framed(2, <<1>>),       \* fewer header bytes than declared
    <<128>> }               \* a truncated header length

Sections ==
  UNION {
    { Framed(CID_LENGTH + Len(v), CidOf(v) \o v),          \* a block
      Framed(CID_LENGTH + Len(v), CidOf(v) \o <<3>>),      \* altered bytes
      Framed(CID_LENGTH + Len(v), RawCidOf(v) \o v),       \* another CID type
      Framed(CID_LENGTH + Len(v) + 1, CidOf(v) \o v),      \* shorter than
                                                           \* declared
      Framed(CID_LENGTH, Slice(CidOf(v), 0, 10)) }         \* cut in the CID
    : v \in CarValues }

Tails == {<<>>, <<128>>, <<128, 0>>}

RECURSIVE Concat(_)
Concat(parts) == IF parts = <<>> THEN <<>> ELSE Head(parts) \o Concat(Tail(parts))

Files(n) ==
  {h \o Concat(s) \o tl : h \in Headers, s \in TuplesOf(Sections, n),
                          tl \in Tails}

\* the keys given to the calls
CarKeys == {CidOf(v) : v \in CarValues \cup {<<3>>}}

CarInit ==
  /\ \E n \in 0..MaxBlocks : file \in Files(n)
  /\ car \in {[NoCar EXCEPT !.validate_hashes = b] : b \in BOOLEAN}
  /\ ccall = NoCarCall
  /\ TestIdle
  /\ CodecIdle
  /\ StoreIdle
  /\ OverlayIdle
  /\ VarintIdle
  /\ CacheIdle
  /\ ProtoIdle

\* bs = ReadOnlyCARBlockStore(file, validate_hashes)
CarOpen ==
  /\ car.st = "none"
  /\ \E r \in {CAR_init(file)} :
       car' = [car EXCEPT !.st = r.st, !.block_offsets = r.block_offsets]
  /\ UNCHANGED <<file, ccall, vars, codecVars, storeVars, overlayVars,
                 varintVars, cacheVars, protoVars>>

\* bs.get_block(k)
CarGet(k) ==
  /\ car.st = "ok"
  /\ \E r \in {CAR_get_block(file, car.block_offsets, car.validate_hashes,
                              k)} :
       ccall' = [NoCarCall EXCEPT !.op = "get", !.key = k, !.st = r.st,
                                  !.ret = r.val,
                                  !.before = car.block_offsets]
  /\ UNCHANGED <<file, car, vars, codecVars, storeVars, overlayVars,
                 varintVars, cacheVars, protoVars>>

\* bs.put_block(k, v)
CarPut(k, v) ==
  /\ car.st = "ok"
  /\ \E r \in {CAR_put_block(car.block_offsets, k, v)} :
       /\ car' = [car EXCEPT !.block_offsets = r.block_offsets]
       /\ ccall' = [NoCarCall EXCEPT !.op = "put", !.key = k, !.value = v,
                                     !.st = r.st,
                                     !.before = car.block_offsets]
  /\ UNCHANGED <<file, vars, codecVars, storeVars, overlayVars, varintVars, cacheVars, protoVars>>

\* bs.del_block(k)
CarDel(k) ==
  /\ car.st = "ok"
  /\ \E r \in {CAR_del_block(car.block_offsets, k)} :
       /\ car' = [car EXCEPT !.block_offsets = r.block_offsets]
       /\ ccall' = [NoCarCall EXCEPT !.op = "del", !.key = k, !.st = r.st,
                                     !.before = car.block_offsets]
  /\ UNCHANGED <<file, vars, codecVars, storeVars, overlayVars, varintVars, cacheVars, protoVars>>

CarNext ==
  \/ CarOpen
  \/ \E k \in CarKeys : CarGet(k)
  \/ \E k \in CarKeys, v \in CarValues : CarPut(k, v)
  \/ \E k \in CarKeys : CarDel(k)

CarSpec == CarInit /\ [][CarNext]_allVars

\* ------------------------------------- the NodeStore over a changing store
\* A seventh program: stored_node and get_node called on one NodeStore(bs)
\* while put_block and del_block are called on bs itself. The nodes are the
\* empty root and the leaves of one key; the blocks put are their
\* serialisations under their CIDs.
Leaves ==
  {empty_root} \cup {MSTNode(<<k>>, <<1>>, <<None, None>>) : k \in BlockKeys}

CacheInit ==
  /\ cns = [bs |-> <<>>, cache |-> <<>>]
  /\ ncall = NoNodeCall
  /\ TestIdle
  /\ CodecIdle
  /\ StoreIdle
  /\ OverlayIdle
  /\ VarintIdle
  /\ CarIdle
  /\ ProtoIdle

\* ns.stored_node(node)
StoredNode(node) ==
  /\ \E r \in {stored_node(cns, node)} :
       /\ cns' = r.ns
       /\ ncall' = [NoNodeCall EXCEPT !.op = "stored", !.cid = cid(node),
                                      !.st = r.st, !.before = cns]
  /\ UNCHANGED <<vars, codecVars, storeVars, overlayVars, varintVars,
                 carVars, protoVars>>

\* ns.get_node(c)
GetNode(c) ==
  /\ \E r \in {get_node(cns, c)} :
       /\ cns' = r.ns
       /\ ncall' = [NoNodeCall EXCEPT !.op = "get", !.cid = c, !.st = r.st,
                                      !.ret = IF r.st = "ok" THEN r.val
                                              ELSE empty_root,
                                      !.before = cns]
  /\ UNCHANGED <<vars, codecVars, storeVars, overlayVars, varintVars,
                 carVars, protoVars>>

\* bs.put_block(bytes(node.cid), node.serialised)
BsPut(node) ==
  /\ \E r \in {put_block(cns.bs, cid(node), serialised(node))} :
       /\ cns' = [cns EXCEPT !.bs = r.val]
       /\ ncall' = [NoNodeCall EXCEPT !.op = "put", !.cid = cid(node),
                                      !.st = r.st, !.before = cns]
  /\ UNCHANGED <<vars, codecVars, storeVars, overlayVars, varintVars,
                 carVars, protoVars>>

\* bs.del_block(bytes(c))
BsDel(c) ==
  /\ cns' = [cns EXCEPT !.bs = del_block(cns.bs, c)]
  /\ ncall' = [NoNodeCall EXCEPT !.op = "del", !.cid = c, !.before = cns]
  /\ UNCHANGED <<vars, codecVars, storeVars, overlayVars, varintVars,
                 carVars, protoVars>>

CacheNext ==
  \/ \E node \in Leaves : StoredNode(node)
  \/ \E c \in {None} \cup {cid(node) : node \in Leaves} : GetNode(c)
  \/ \E node \in Leaves : BsPut(node)
  \/ \E node \in Leaves : BsDel(cid(node))

CacheSpec == CacheInit /\ [][CacheNext]_allVars

\* ------------------------------------------- the prototype NodeWrangler
\* An eighth program: the NodeWrangler of the prototype module src/mst.py
\* over a NodeStore over an empty MemoryBlockStore, put called on the root the
\* call before returned.
ProtoInit ==
  /\ \E g \in {get_node([bs |-> <<>>, cache |-> <<>>], None)} :
       /\ pns = g.ns
       /\ proot = cid(g.val)
  /\ pcall = NoProtoCall
  /\ TestIdle
  /\ CodecIdle
  /\ StoreIdle
  /\ OverlayIdle
  /\ VarintIdle
  /\ CarIdle
  /\ CacheIdle

\* root = wrangler.put(root, k, v)
ProtoPut(k, v) ==
  /\ pcall.n < MaxOps
  /\ \E r \in {Mst_put(pns, proot, k, v)} :
       /\ pns' = r.ns
       /\ proot' = IF r.st = "ok" THEN r.val ELSE proot
       /\ pcall' = [op |-> "put", key |-> k, val |-> v, before |-> proot,
                    st |-> r.st, ret |-> r.val, n |-> pcall.n + 1]
  /\ UNCHANGED <<vars, codecVars, storeVars, overlayVars, varintVars,
                 carVars, cacheVars>>

ProtoNext == \E k \in Keys, v \in Vals : ProtoPut(k, v)

ProtoSpec == ProtoInit /\ [][ProtoNext]_allVars

\* ------------------------------------------------------------ properties
\* the keys of S as Python's sorted() lists them
RECURSIVE SortedKeys(_)
SortedKeys(S) ==
  IF S = {} THEN <<>>
  ELSE LET m == CHOOSE x \in S : \A y \in S : ~StrLt(y, x)
       IN <<m>> \o SortedKeys(S \ {m})

\* the (key, value) pairs of the abstract dictionary d in ascending key order
Items(d) ==
  LET ks == SortedKeys(DOMAIN d)
  IN [i \in 1..Len(ks) |-> <<ks[i], <<d[ks[i]]>>>>]

\* "for k in keys: mst = wrangler.put_record(mst, k, d[k])"
RECURSIVE PutAll(_, _, _, _)
PutAll(store, mst, keys, d) ==
  IF keys = <<>> THEN Ok(store, mst)
  ELSE LET p == put_record(store, mst, Head(keys), d[Head(keys)])
       IN IF p.st # "ok" THEN p
          ELSE PutAll(p.ns, p.val, Tail(keys), d)

\* the root got by inserting the pairs of d in ascending key order from the
\* empty root
AscendingRoot(d) == PutAll(ns, EMPTY_NODE_CID, SortedKeys(DOMAIN d), d)

\* iter_kv of a fresh walker on root_cid
WalkKv(root_cid) ==
  LET w == NodeWalker(ns, root_cid, PATH_MIN, PATH_MAX)
  IN IF w.st # "ok" THEN w ELSE iter_kv(w.ns, w.val, <<>>)

\* the node behind a CID held in the store
NodeOf(c) == get_node(ns, c).val

\* C1: order independence. A root built from the empty root by inserting a
\* set of (key, value) pairs, each key once, in whatever order, is the root
\* that inserting the same pairs in ascending key order gives; so any two
\* orderings of the same set give the same root CID.
C1_OrderIndependent ==
  putsOnly => /\ AscendingRoot(dict).st = "ok"
              /\ AscendingRoot(dict).val = root

\* three pairs went in, the last one not the greatest key, and the tree has
\* more than one level
C1_Witness ==
  /\ putsOnly
  /\ Cardinality(DOMAIN dict) >= 3
  /\ last.op = "put"
  /\ \E k \in DOMAIN dict : StrLt(last.key, k)
  /\ \E i \in 1..Len(NodeOf(root).subtrees) : NodeOf(root).subtrees[i] # None

\* C2: history independence. After any sequence of put_record and
\* del_record the root CID is the one the resulting contents alone
\* determine (the root of their ascending insertion), and a root saved
\* earlier with the same contents is the same CID.
C2_HistoryIndependent ==
  /\ AscendingRoot(dict).st = "ok"
  /\ AscendingRoot(dict).val = root
  /\ (dict = dict_a => root = root_a)

\* a sequence with an effective delete or overwrite that ends non-empty
C2_Witness ==
  /\ ~putsOnly
  /\ last.op \in {"del", "put"}
  /\ ~last.absent
  /\ last.ret # last.before
  /\ DOMAIN dict # {}

\* C3: ordered map. iter_kv on the root yields, in strictly ascending key
\* order, exactly the pairs of the abstract dictionary updated in parallel.
C3_OrderedMap ==
  LET r == WalkKv(root) IN
  /\ r.st = "ok"
  /\ r.val = Items(dict)
  /\ \A i \in 1..Len(r.val) : \A j \in 1..Len(r.val) :
       i < j => StrLt(r.val[i][1], r.val[j][1])

\* several keys on more than one level, after a delete or an overwrite
C3_Witness ==
  /\ Cardinality(DOMAIN dict) >= 2
  /\ ~putsOnly
  /\ \E i \in 1..Len(NodeOf(root).subtrees) : NodeOf(root).subtrees[i] # None
  /\ Len(WalkKv(root).val) = Cardinality(DOMAIN dict)

\* C4: insert/delete inverse. When put_record has inserted a key that was
\* absent, del_record of that key on the returned root returns the CID of
\* the root the key was inserted into.
C4_InsertDeleteInverse ==
  (last.op = "put" /\ last.st = "ok" /\ last.absent) =>
    LET d == del_record(ns, last.ret, last.key)
    IN d.st = "ok" /\ d.val = last.before

\* the inserted key raised the height of a non-empty tree and split what
\* was below it
C4_Witness ==
  /\ last.op = "put" /\ last.st = "ok" /\ last.absent
  /\ last.before # EMPTY_NODE_CID
  /\ key_height(last.key) > height(NodeOf(last.before)).val
  /\ NodeOf(last.ret).subtrees[1] # None
  /\ NodeOf(last.ret).subtrees[2] # None
  /\ del_record(ns, last.ret, last.key).val = last.before

\* C5: put idempotence. Putting again the pair just put returns the same
\* CID, and putting any pair the tree already holds returns the root
\* unchanged.
C5_PutIdempotent ==
  /\ (last.op = "put" /\ last.st = "ok") =>
       LET p == put_record(ns, last.ret, last.key, last.val)
       IN p.st = "ok" /\ p.val = last.ret
  /\ \A k \in DOMAIN dict :
       LET p == put_record(ns, root, k, dict[k])
       IN p.st = "ok" /\ p.val = root

\* the pair put last sits below the root level of a tree with other keys
C5_Witness ==
  /\ last.op = "put" /\ last.st = "ok"
  /\ Cardinality(DOMAIN dict) >= 2
  /\ key_height(last.key) < height(NodeOf(root)).val
  /\ put_record(ns, last.ret, last.key, last.val).val = root

\* C6: deleting an absent key is a no-op. del_record of a key the tree does
\* not hold returns the root unchanged, and deleting any key twice returns
\* what deleting it once returned.
C6_DeleteAbsentNop ==
  /\ (last.op = "del" /\ last.st = "ok" /\ last.absent) => last.ret = last.before
  /\ \A k \in Keys \ DOMAIN dict :
       LET d == del_record(ns, root, k)
       IN d.st = "ok" /\ d.val = root
  /\ \A k \in Keys :
       LET d1 == del_record(ns, root, k)
           d2 == del_record(d1.ns, d1.val, k)
       IN d1.st = "ok" /\ d2.st = "ok" /\ d2.val = d1.val

\* an absent key lower than the root was deleted where its slot in the
\* root holds a subtree
C6_Witness ==
  /\ last.op = "del" /\ last.st = "ok" /\ last.absent
  /\ last.ret = root
  /\ NodeOf(root).keys # <<>>
  /\ key_height(last.key) < height(NodeOf(root)).val
  /\ NodeOf(root).subtrees[gte_index(NodeOf(root), last.key) + 1] # None

\* C7: put_record and del_record never fail. No call made raised, and on
\* the root held no put_record and no del_record raises, whatever the key
\* and value.
C7_NeverFails ==
  /\ last.op \in {"put", "del"} => last.st = "ok"
  /\ \A k \in Keys : del_record(ns, root, k).st = "ok"
  /\ \A k \in Keys : \A v \in Vals : put_record(ns, root, k, v).st = "ok"

\* a delete took the only key off the top of a tree that keeps other keys
C7_Witness ==
  /\ last.op = "del" /\ last.st = "ok" /\ ~last.absent
  /\ Len(NodeOf(last.before).keys) = 1
  /\ root # EMPTY_NODE_CID
  /\ height(NodeOf(root)).st = "ok"
  /\ height(NodeOf(root)).val < height(NodeOf(last.before)).val

\* every block of the blockstore is still there, with the same bytes
BlocksKept ==
  \A c \in DOMAIN ns.bs : c \in DOMAIN ns'.bs /\ ns'.bs[c] = ns.bs[c]

\* the root saved earlier is readable and has the contents it had
SavedRootReadable ==
  /\ WalkKv(root_a).st = "ok"
  /\ WalkKv(root_a).val = Items(dict_a)

\* C8: persistence. No step deletes a block or changes its bytes, and the
\* root saved earlier stays readable with the contents it had when it was
\* returned.
C8_Persistence == [][BlocksKept]_vars /\ []SavedRootReadable

\* the saved root is not empty and the tree has been changed since
C8_Witness ==
  /\ root_a # EMPTY_NODE_CID
  /\ root # root_a
  /\ last.op \in {"put", "del"}
  /\ last.ret # last.before
  /\ WalkKv(root_a).val = Items(dict_a)

\* C9: diff soundness. mst_diff(ns, A, B) returns the two CID sets that
\* very_slow_mst_diff(ns, A, B) returns.
C9_DiffSound ==
  last.op = "diff" =>
    /\ last.st = "ok"
    /\ <<last.created, last.deleted>> = very_slow_mst_diff(ns, last.a, last.b).val

\* C10: diff antisymmetry. When mst_diff(ns, A, B) returns (created,
\* deleted), mst_diff(ns, B, A) returns (deleted, created).
C10_DiffAntisymmetric ==
  (last.op = "diff" /\ last.st = "ok") =>
    LET r == mst_diff(ns, last.b, last.a)
    IN r.st = "ok" /\ r.val = <<last.deleted, last.created>>

\* a diff of two different non-empty trees returned
C10_Witness ==
  /\ last.op = "diff" /\ last.st = "ok"
  /\ last.a # last.b
  /\ last.a # EMPTY_NODE_CID /\ last.b # EMPTY_NODE_CID
  /\ last.created # {} /\ last.deleted # {}
  /\ mst_diff(ns, last.b, last.a).val = <<last.deleted, last.created>>

\* the record-level changes between two dictionaries
DictDeltas(da, db) ==
  {RecordDelta("CREATED", k, None, <<db[k]>>) : k \in DOMAIN db \ DOMAIN da}
  \cup
  {RecordDelta("UPDATED", k, <<da[k]>>, <<db[k]>>) :
     k \in {x \in DOMAIN da \cap DOMAIN db : da[x] # db[x]}}
  \cup
  {RecordDelta("DELETED", k, <<da[k]>>, None) : k \in DOMAIN da \ DOMAIN db}

\* the dictionary the root of the last mst_diff call's first argument holds
DiffDictA == IF last.a = root_a THEN dict_a ELSE dict

\* the dictionary the root of the last mst_diff call's second argument holds
DiffDictB == IF last.b = root THEN dict ELSE dict_a

\* C11: record_diff correctness. For every pair of roots (A, B), mst_diff(A,
\* B) returns (created, deleted) and record_diff of them yields exactly one
\* CREATED delta (prior null, later B's value) per key in B but not A, one
\* DELETED delta (prior A's value, later null) per key in A but not B, one
\* UPDATED delta (prior A's value, later B's value) per key in both with
\* different values, and nothing for unchanged keys.
C11_RecordDiffCorrect ==
  last.op = "diff" =>
    /\ last.st = "ok"
    /\ \E r \in {record_diff(ns, last.created, last.deleted)} :
         r.st = "ok" /\ r.val = DictDeltas(DiffDictA, DiffDictB)

\* find_rpath of a fresh walker on the current root
Find(k) ==
  With(NodeWalker(ns, root, PATH_MIN, PATH_MAX), LAMBDA w :
    IF w.st # "ok" THEN Found(w.st, w.ns, <<>>, None)
    ELSE find_rpath(w.ns, w.val, k))

\* C12: find correctness. For every root built by put_record / del_record
\* and every key k, find_rpath(k) of a fresh walker returns v when iter_kv of
\* the root yields (k, v), and returns None, without raising, when k is
\* absent.
C12_FindCorrect ==
  \A k \in Keys :
    \E f \in {Find(k)} :
      /\ f.st = "ok"
      /\ f.val = IF k \in DOMAIN dict THEN <<dict[k]>> ELSE None

\* the start and end arguments tried: every key, a path below all of them
\* and a path above all of them
RangeKeys == {KeyStr(i) : i \in 1..(NumKeys + 2)}

\* iter_kv_range of a fresh walker on the current root
WalkKvRange(start, end, end_inclusive) ==
  With(NodeWalker(ns, root, PATH_MIN, PATH_MAX), LAMBDA w :
    IF w.st # "ok" THEN w
    ELSE iter_kv_range(w.ns, w.val, start, end, end_inclusive))

\* the pairs of kv with start <= k < end, or k <= end when end_inclusive
InRange(kv, start, end, end_inclusive) ==
  SelectSeq(kv, LAMBDA p :
    /\ StrLe(start, p[1])
    /\ StrLt(p[1], end) \/ (end_inclusive /\ p[1] = end))

\* C13: range consistency. For every reachable root and all start and end
\* keys, iter_kv_range(start, end, end_inclusive) of a fresh walker yields,
\* in ascending order, exactly the pairs of iter_kv(root) with start <= k <
\* end (k <= end when end_inclusive).
C13_RangeConsistent ==
  \E all \in {WalkKv(root)} :
    \A start \in RangeKeys, end \in RangeKeys, end_inclusive \in BOOLEAN :
      \E r \in {WalkKvRange(start, end, end_inclusive)} :
        /\ r.st = "ok"
        /\ r.val = InRange(all.val, start, end, end_inclusive)

\* a range that starts at a key held in a subtree of the root node, after
\* the first key of the tree, and ends at a later key, which the range
\* holds only when end_inclusive
C13_Witness ==
  \E start \in Keys, end \in Keys :
    /\ start \in DOMAIN dict /\ end \in DOMAIN dict
    /\ \A i \in 1..Len(NodeOf(root).keys) : NodeOf(root).keys[i] # start
    /\ \E k \in DOMAIN dict : StrLt(k, start)
    /\ WalkKvRange(start, end, TRUE).val = <<<<start, <<dict[start]>>>>, <<end, <<dict[end]>>>>>>
    /\ WalkKvRange(start, end, FALSE).val = <<<<start, <<dict[start]>>>>>>

\* NodeStore(MemoryBlockStore()) after put_block of the blocks of ns that
\* cids names, and of no other
ProofStore(cids) ==
  [bs |-> [c \in cids \cap DOMAIN ns.bs |-> ns.bs[c]], cache |-> <<>>]

\* C14: proof sufficiency. For every reachable root and rpath: when rpath is
\* present, build_inclusion_proof returns a set of CIDs that holds the root,
\* and verify_inclusion returns normally on a fresh NodeStore over only the
\* blocks of that set; likewise build_exclusion_proof and verify_exclusion
\* when rpath is absent.
C14_ProofSufficient ==
  \A k \in Keys :
    \E p \in {IF k \in DOMAIN dict
                THEN build_inclusion_proof(ns, root, k)
                ELSE build_exclusion_proof(ns, root, k)} :
      /\ p.st = "ok"
      /\ root \in p.val
      /\ IF k \in DOMAIN dict
           THEN verify_inclusion(ProofStore(p.val), root, k).st = "ok"
           ELSE verify_exclusion(ProofStore(p.val), root, k).st = "ok"

\* C15: missing proof blocks are reported as InvalidProof. For every
\* reachable root and rpath, when any one block of the witness, the root
\* block included, is absent from the blockstore of a fresh NodeStore,
\* verify_inclusion and verify_exclusion raise InvalidProof and nothing
\* else.
C15_MissingBlockInvalidProof ==
  \A k \in Keys :
    \E p \in {find_rpath_and_build_proof(ns, root, k)} :
      p.st = "ok" =>
        \A c \in p.val[2] :
          /\ verify_inclusion(ProofStore(p.val[2] \ {c}), root, k).st
               = "InvalidProof"
          /\ verify_exclusion(ProofStore(p.val[2] \ {c}), root, k).st
               = "InvalidProof"

\* C16: proof construction is guarded. For every reachable root and rpath,
\* build_inclusion_proof raises ProofError when rpath is absent and returns
\* the proof set when it is present, build_exclusion_proof raises ProofError
\* when rpath is present and returns the proof set when it is absent;
\* neither raises anything else.
C16_ProofGuarded ==
  \A k \in Keys :
    /\ build_inclusion_proof(ns, root, k).st
         = IF k \in DOMAIN dict THEN "ok" ELSE "ProofError"
    /\ build_exclusion_proof(ns, root, k).st
         = IF k \in DOMAIN dict THEN "ProofError" ELSE "ok"

RECURSIVE EntryKey(_, _)
EntryKey(e, i) ==
  IF i = 0 THEN <<>> ELSE Slice(EntryKey(e, i - 1), 0, e[i].p) \o e[i].k

\* entry i has p > len(prev_key)
PrefixTooLong(e, i) == e[i].p > Len(EntryKey(e, i - 1))

\* entry i has a non-maximal prefix: the first byte of k is prev_key[p]
PrefixNotMaximal(e, i) ==
  /\ e[i].k # <<>>
  /\ e[i].p < Len(EntryKey(e, i - 1))
  /\ e[i].k[1] = EntryKey(e, i - 1)[e[i].p + 1]

\* the key of entry i is not strictly greater than the previous key
KeyNotGreater(e, i) == ~StrLt(EntryKey(e, i - 1), EntryKey(e, i))

C19_ValuesImmutable ==
  (call.op = "put" /\ call.key \in DOMAIN call.had) =>
    /\ _state = call.before
    /\ get_block(_state, call.key) = [st |-> "ok", val |-> call.had[call.key]]
    /\ call.st = IF call.value = call.had[call.key] THEN "ok" ELSE "ValueError"

\* C20: MemoryBlockStore get and delete semantics. After any sequence of
\* put_block / del_block, get_block(k) returns the value of the most recent
\* successful put of k if k has not been deleted since, and raises KeyError
\* otherwise; del_block of a key that is not present is a no-op; after
\* del_block(k) a put_block(k, v) of any value succeeds.
C20_GetDelete ==
  /\ \A k \in BlockKeys :
       get_block(_state, k) = IF k \in DOMAIN puts
                                THEN [st |-> "ok", val |-> puts[k]]
                                ELSE [st |-> "KeyError", val |-> <<>>]
  /\ call.op = "get" =>
       /\ call.st = IF call.key \in DOMAIN puts THEN "ok" ELSE "KeyError"
       /\ call.st = "ok" => call.ret = puts[call.key]
  /\ (call.op = "del" /\ call.key \notin DOMAIN call.had) =>
       _state = call.before
  /\ call.op = "del" =>
       /\ \A k \in BlockKeys \ {call.key} :
            get_block(_state, k) = get_block(call.before, k)
       /\ \A v \in BlockValues :
            \E r \in {put_block(_state, call.key, v)} :
              r.st = "ok" /\ get_block(r.val, call.key).val = v

\* del_block has just removed a key that held a non-empty value while the
\* other key holds the empty value, which get_block returns
C20_Witness ==
  /\ call.op = "del"
  /\ call.key \in DOMAIN call.had
  /\ call.had[call.key] # <<>>
  /\ call.key \notin DOMAIN _state
  /\ \E k \in BlockKeys \ {call.key} :
       k \in DOMAIN puts /\ get_block(_state, k) = [st |-> "ok", val |-> <<>>]

\* C21: OverlayBlockStore layering. put_block and del_block change upper
\* only and leave lower as it was, whether they return or raise; get_block(k)
\* returns upper's value when upper holds k, otherwise lower's, and raises
\* KeyError only when neither holds k; so a key lower holds is still read
\* after del_block(k).
C21_OverlayLayering ==
  /\ ocall.op \in {"put", "del"} => lower = ocall.before.lower
  /\ ocall.op = "put" /\ ocall.st = "ok" => upper[ocall.key] = ocall.value
  /\ ocall.op = "put" /\ ocall.st # "ok" => upper = ocall.before.upper
  /\ ocall.op = "del" => upper = DictDel(ocall.before.upper, ocall.key)
  /\ ocall.op = "get" =>
       IF ocall.key \in DOMAIN upper
         THEN ocall.st = "ok" /\ ocall.ret = upper[ocall.key]
         ELSE IF ocall.key \in DOMAIN lower
                THEN ocall.st = "ok" /\ ocall.ret = lower[ocall.key]
                ELSE ocall.st = "KeyError"
  /\ ocall.op = "del" /\ ocall.key \in DOMAIN ocall.before.lower =>
       \E g \in {Overlay_get_block([upper |-> upper, lower |-> lower],
                                   ocall.key)} :
         g.st = "ok" /\ g.val = ocall.before.lower[ocall.key]

\* a del_block of a key both stores held, with different values
C21_Witness ==
  /\ ocall.op = "del"
  /\ ocall.key \in DOMAIN ocall.before.upper
  /\ ocall.key \in DOMAIN ocall.before.lower
  /\ ocall.before.upper[ocall.key] # ocall.before.lower[ocall.key]

\* C22: varint round trip. encode_varint returns for exactly the n with
\* 0 <= n < 2**63 and raises ValueError for the others; what it returns is at
\* most 9 bytes, and decode_varint on a stream starting with those bytes
\* returns n and has read exactly those bytes.
C22_VarintRoundTrip ==
  /\ vgiven.kind = "int" /\ vmade.st # "none" =>
       /\ vmade.st = (IF ~vgiven.n.neg /\ Len(vgiven.n.d) <= 9
                        THEN "ok" ELSE "ValueError")
       /\ Len(vmade.bytes) <= 9
  /\ vgiven.kind = "int" /\ vagain.st # "none" =>
       /\ vagain.st = "ok"
       /\ vagain.n = vgiven.n
       /\ vagain.pos = Len(vmade.bytes)

\* 2**63 - 1 encoded to nine bytes and read back with a byte after it
C22_Witness ==
  /\ vgiven.kind = "int"
  /\ vgiven.n = PyInt([i \in 1..9 |-> 127])
  /\ vmade.bytes = [i \in 1..9 |-> IF i < 9 THEN 255 ELSE 127]
  /\ vagain.st = "ok"
  /\ vagain.pos = 9

\* the number of bytes at the head of data that have the continuation bit
RECURSIVE Continued(_)
Continued(data) ==
  IF data # <<>> /\ Head(data) >= 128 THEN 1 + Continued(Tail(data)) ELSE 0

\* C23: decode_varint accepts canonical encodings only. It raises ValueError
\* on empty input, on input that ends in a byte with the continuation bit,
\* when a 10th byte would be needed, and on an encoding of several bytes
\* whose last byte is 0x00; otherwise it returns, and encode_varint of what
\* it returned is the bytes it has read.
C23_VarintCanonical ==
  /\ vgiven.kind = "bytes" /\ vmade.st # "none" =>
       \E k \in {Continued(vgiven.data)} :
         vmade.st = (IF \/ vgiven.data = <<>>
                        \/ k = Len(vgiven.data)
                        \/ k >= 9
                        \/ k >= 1 /\ vgiven.data[k + 1] = 0
                       THEN "ValueError" ELSE "ok")
  /\ vgiven.kind = "bytes" /\ vagain.st # "none" =>
       /\ vagain.st = "ok"
       /\ vagain.bytes = Slice(vgiven.data, 0, vmade.pos)

\* an encoding of several bytes whose last byte is 0x00, b"\x80\x00" or
\* a longer one, has been rejected
C23_Witness ==
  /\ vgiven.kind = "bytes"
  /\ Continued(vgiven.data) \in 1..8
  /\ Len(vgiven.data) > Continued(vgiven.data)
  /\ vgiven.data[Continued(vgiven.data) + 1] = 0
  /\ vmade.st = "ValueError"

\* C24: archive hash check. With validate_hashes on, get_block(key) returns
\* v only if key starts with 01 71 12 20 and sha-256(v) is key[4:]; so over
\* a file in which the bytes of a block were altered the constructor
\* returns and get_block of that block raises. put_block and del_block
\* always raise and leave block_offsets as it was.
C24_HashChecked ==
  /\ ccall.op = "get" /\ car.validate_hashes /\ ccall.st = "ok" =>
       /\ Slice(ccall.key, 0, 4) = CIDV1_DAG_CBOR_SHA256_32_PFX
       /\ sha256(ccall.ret) = Slice(ccall.key, 4, Len(ccall.key))
  /\ ccall.op \in {"put", "del"} =>
       /\ ccall.st = "NotImplementedError"
       /\ car.block_offsets = ccall.before

\* get_block of a block whose bytes were altered has raised ValueError
C24_Witness ==
  /\ car.st = "ok"
  /\ car.validate_hashes
  /\ ccall.op = "get"
  /\ ccall.key \in DOMAIN car.block_offsets
  /\ read(file, car.block_offsets[ccall.key][1],
          car.block_offsets[ccall.key][2]) = <<3>>
  /\ ccall.st = "ValueError"

\* the file from pos on is block sections up to its end: each has a length
\* varint, the length declared (at least a CID) and a CID starting with
\* 01 71 12 20
RECURSIVE WellFormedBlocks(_, _)
WellFormedBlocks(data, pos) ==
  \/ pos = Len(data)
  \/ \E dv \in {decode_varint([data |-> data, pos |-> pos])} :
       /\ dv.st = "ok"
       /\ int_value(dv.val.d) >= CID_LENGTH
       /\ dv.pos + int_value(dv.val.d) <= Len(data)
       /\ Slice(data, dv.pos, dv.pos + 4) = CIDV1_DAG_CBOR_SHA256_32_PFX
       /\ WellFormedBlocks(data, dv.pos + int_value(dv.val.d))

\* C25: malformed archives are rejected. The constructor raises when the
\* header's version is not 1, its number of roots is not 1, a length varint
\* is truncated or invalid, a block is shorter than the length declared or
\* a block's CID does not start with 01 71 12 20: when it returns, the file
\* is a version 1 header with one root followed by whole block sections
\* only, each of them indexed.
C25_MalformedRejected ==
  car.st = "ok" =>
    \E dv \in {decode_varint([data |-> file, pos |-> 0])} :
      /\ dv.st = "ok"
      /\ dv.pos + int_value(dv.val.d) <= Len(file)
      /\ file[dv.pos + 1] = 1
      /\ file[dv.pos + 2] = 1
      /\ WellFormedBlocks(file, dv.pos + int_value(dv.val.d))

\* C26: cache transparency. Whatever stored_node, get_node, put_block and
\* del_block calls came before, get_node(cid) returns the node a NodeStore
\* without a cache over the same BlockStore returns, and raises KeyError
\* exactly when that one does.
C26_CacheTransparent ==
  ncall.op = "get" =>
    \E u \in {get_node([bs |-> ncall.before.bs, cache |-> <<>>],
                        ncall.cid)} :
      /\ ncall.st = u.st
      /\ ncall.st = "ok" => ncall.ret = u.val

\* every position right() and down() can move the cursor w to
RECURSIVE Cursors(_, _)
Cursors(s, w) ==
  {w}
  \cup (IF can_go_right(w) THEN Cursors(s, right(w).val) ELSE {})
  \cup UNION {Cursors(s, d.val) : d \in {x \in {down(s, w)} : x.st = "ok"}}

\* the positions of a cursor over the tree of root
RootCursors == Cursors(ns, NodeWalker(ns, root, PATH_MIN, PATH_MAX).val)

\* C27: cursor misuse. At every position of a cursor over the tree, down()
\* where the subtree is None raises and leaves the stack as it was, and
\* right() at the rightmost slot of the node raises and leaves idx and the
\* stack as they were.
C27_CursorMisuse ==
  \A w \in RootCursors :
    /\ w_subtree(w) = None =>
         \E d \in {down(ns, w)} : d.st = "Exception" /\ d.val = w
    /\ ~can_go_right(w) =>
         \E r \in {right(w)} : r.st = "Exception" /\ r.val = w

\* a cursor two levels down, past the last key of the node, no subtree
\* under it: both right() and down() have raised there
C27_Witness ==
  \E w \in RootCursors :
    /\ Len(w) >= 2
    /\ frame(w).idx >= 1
    /\ ~can_go_right(w)
    /\ w_subtree(w) = None
    /\ right(w).st = "Exception"
    /\ down(ns, w).st = "Exception"

\* the greatest key height among the keys S
MaxHeight(S) ==
  CHOOSE h \in {key_height(k) : k \in S} : \A k \in S : key_height(k) <= h

\* the node of c and every node under it are well formed: one subtree more
\* than keys, as many vals as keys, keys strictly ascending, all of height
\* h and strictly between lo and hi, a node without keys only where it has
\* a subtree, and every subtree one level down between the keys around it
RECURSIVE WellFormedTree(_, _, _, _)
WellFormedTree(c, h, lo, hi) ==
  \E n \in {NodeOf(c)} :
    /\ Len(n.subtrees) = Len(n.keys) + 1
    /\ Len(n.vals) = Len(n.keys)
    /\ Ascending(n.keys)
    /\ \A i \in 1..Len(n.keys) :
         /\ key_height(n.keys[i]) = h
         /\ StrLt(lo, n.keys[i])
         /\ StrLt(n.keys[i], hi)
    /\ n.keys = <<>> => n.subtrees[1] # None
    /\ \A i \in 1..Len(n.subtrees) :
         n.subtrees[i] # None =>
           /\ h > 0
           /\ n.subtrees[i] # EMPTY_NODE_CID
           /\ WellFormedTree(n.subtrees[i], h - 1,
                             IF i = 1 THEN lo ELSE n.keys[i - 1],
                             IF i = Len(n.subtrees) THEN hi ELSE n.keys[i])

\* C28: well-formedness. After any sequence of put_record and del_record
\* from the empty root, every node reachable from the root has one subtree
\* more than keys and as many vals as keys, its keys strictly ascending and
\* all of one height h, the keys under subtrees[i] strictly between
\* keys[i-1] and keys[i], every child that is not None at level h-1 (a node
\* without keys and with one subtree where no key of that level exists), and
\* no child is an empty node.
C28_WellFormed ==
  IF dict = <<>>
    THEN root = EMPTY_NODE_CID
    ELSE WellFormedTree(root, MaxHeight(DOMAIN dict), PATH_MIN, PATH_MAX)

\* a put_record has left a node without keys between two levels of the tree
C28_Witness ==
  /\ last.op = "put"
  /\ last.st = "ok"
  /\ \E i \in 1..Len(NodeOf(root).subtrees) :
       /\ NodeOf(root).subtrees[i] # None
       /\ NodeOf(NodeOf(root).subtrees[i]).keys = <<>>

\* the pairs of the tree of c in the store s, in the order of the tree
RECURSIVE TreePairs(_, _), NodePairs(_, _, _)
TreePairs(s, c) ==
  IF c = None THEN <<>> ELSE NodePairs(s, get_node(s, c).val, 0)

NodePairs(s, n, i) ==
  TreePairs(s, n.subtrees[i + 1])
  \o (IF i < Len(n.keys)
        THEN <<<<n.keys[i + 1], n.vals[i + 1]>>>> \o NodePairs(s, n, i + 1)
        ELSE <<>>)

\* C29: root height. The root put_record and del_record return is the
\* canonical empty node, or a node with at least one key whose height is the
\* greatest key height in the tree; a node without keys over a subtree is
\* never returned as a root.
C29_RootHeight ==
  \E n \in {NodeOf(root)}, kv \in {TreePairs(ns, root)} :
    \/ root = EMPTY_NODE_CID /\ kv = <<>>
    \/ /\ n.keys # <<>>
       /\ height(n).st = "ok"
       /\ height(n).val = MaxHeight({kv[i][1] : i \in 1..Len(kv)})

\* del_record has removed the only key of the top level over other keys
C29_Witness ==
  /\ last.op = "del"
  /\ last.st = "ok"
  /\ ~last.absent
  /\ dict # <<>>
  /\ key_height(last.key) > MaxHeight(DOMAIN dict)
  /\ root = last.ret

\* the CIDs of the node of c and of the nodes under it
RECURSIVE TreeCids(_)
TreeCids(c) ==
  {c} \cup UNION {TreeCids(NodeOf(c).subtrees[i]) :
                    i \in {j \in 1..Len(NodeOf(c).subtrees) :
                             NodeOf(c).subtrees[j] # None}}

\* the subtrees of the tree of root: None and every node that is not empty
Subtrees == {None} \cup (TreeCids(root) \ {EMPTY_NODE_CID})

\* _split_on_key(S, key) is the pairs of S below key and those above it,
\* a side without pairs is None, and _merge of the two sides is S again
SplitPartitions(S, key) ==
  \E sp \in {_split_on_key(ns, S, key)} :
    /\ sp.st = "ok"
    /\ \E l \in {TreePairs(sp.ns, sp.val[1])},
          r \in {TreePairs(sp.ns, sp.val[2])} :
         /\ l = SelectSeq(TreePairs(ns, S), LAMBDA p : StrLt(p[1], key))
         /\ r = SelectSeq(TreePairs(ns, S), LAMBDA p : StrLt(key, p[1]))
         /\ l = <<>> => sp.val[1] = None
         /\ r = <<>> => sp.val[2] = None
    /\ \E m \in {_merge(sp.ns, sp.val[1], sp.val[2])} :
         m.st = "ok" /\ m.val = S

\* C30: split partitions a subtree. For every subtree S of a well-formed
\* tree and every key not in S, _split_on_key(S, key) returns (left, right)
\* where left holds exactly the pairs of S below key and right exactly
\* those above it, none lost and none twice; a side without keys is None,
\* never the CID of a node without keys; and _merge(left, right) returns S.
C30_SplitPartitions ==
  \A S \in Subtrees :
    \E ps \in {TreePairs(ns, S)} :
      \A key \in Keys \ {ps[i][1] : i \in 1..Len(ps)} :
        SplitPartitions(S, key)

\* a split that cut through two levels: the right side is a node without
\* keys over the rest of the lower node
C30_Witness ==
  \E S \in Subtrees \ {None}, key \in Keys :
    \E sp \in {_split_on_key(ns, S, key)} :
      /\ sp.st = "ok"
      /\ sp.val[1] # None
      /\ sp.val[2] # None
      /\ get_node(sp.ns, sp.val[2]).val.keys = <<>>
      /\ TreePairs(sp.ns, sp.val[2]) # <<>>

\* _mst_diff_recursive on fresh cursors over the trees of a and b
DiffRun(a, b) ==
  With(NodeWalker(ns, a, PATH_MIN, PATH_MAX), LAMBDA wa :
  With(NodeWalker(wa.ns, b, PATH_MIN, PATH_MAX), LAMBDA wb :
    _mst_diff_recursive(wb.ns, {}, {}, wa.val, wb.val)))

\* the height of the tree of the root of dictionary d
TreeHeight(d) == IF d = <<>> THEN 0 ELSE MaxHeight(DOMAIN d)

\* the diff of a and b comes to an end, by returning or by raising, and its
\* calls nest no deeper than one per level of the higher tree and one more
\* for the None subtrees under the lowest level
DiffFinishes(a, b, h) ==
  \E R \in {DiffRun(a, b)} :
    /\ R.st \in {"ok", "Exception"}
    /\ R.depth <= h + 1

\* C31: diff terminates. For every pair of roots built by put_record and
\* del_record, mst_diff finishes: no turn of the catch-up loop leaves both
\* cursors where they were with unequal rpath, the loops come to an end, and
\* the depth of the recursion is bounded by the height of the trees.
C31_DiffTerminates ==
  \E h \in {IF TreeHeight(dict) > TreeHeight(dict_a)
              THEN TreeHeight(dict) ELSE TreeHeight(dict_a)} :
    /\ DiffFinishes(root_a, root, h)
    /\ DiffFinishes(root, root_a, h)

\* a diff of two trees of two levels and more has returned after going down
\* into the subtrees of both
C31_Witness ==
  /\ last.op = "diff"
  /\ last.st = "ok"
  /\ TreeHeight(dict) >= 1
  /\ TreeHeight(dict_a) >= 1
  /\ DiffRun(last.a, last.b).depth >= 2

\* the cursors of the walkers _mst_diff_recursive makes for the subtrees
SubCursors ==
  UNION {Cursors(ns, subtree_walker(ns, w).val) : w \in RootCursors}

\* a key of the tree remains to the right of the cursor, inside the bounds
\* the walker was made with
KeyRemains(w) ==
  \E k \in DOMAIN dict : StrLt(w_lpath(w), k) /\ StrLt(k, w[1].rpath)

\* C32: the walker never falls off the root. Over the trees built by
\* put_record and del_record, iter_kv, iter_nodes, iter_kv_range and
\* _mst_diff_recursive never empty the stack of the walker: right_or_up is
\* never called with every frame at its rightmost slot, so StopIteration is
\* never raised; and is_final is true exactly when no key remains to the
\* right of the cursor.
C32_NeverFallsOff ==
  \E w0 \in {NodeWalker(ns, root, PATH_MIN, PATH_MAX).val} :
    /\ iter_kv(ns, w0, <<>>).st = "ok"
    /\ iter_nodes(ns, w0).st = "ok"
    /\ \A start \in Keys, end \in Keys, end_inclusive \in BOOLEAN :
         iter_kv_range(ns, w0, start, end, end_inclusive).st = "ok"
    /\ DiffRun(root_a, root).st # "StopIteration"
    /\ DiffRun(root, root_a).st # "StopIteration"
    /\ \A w \in RootCursors \cup SubCursors :
         /\ w # <<>>
         /\ is_final(w) <=> ~KeyRemains(w)

\* the walk over a tree of three levels has been to a final cursor two
\* levels under the root, where no frame of the stack can go right
C32_Witness ==
  /\ dict # <<>>
  /\ \E w \in RootCursors :
       /\ Len(w) = 3
       /\ is_final(w)
       /\ \A i \in 1..Len(w) : ~can_go_right(SubSeq(w, 1, i))
  /\ Len(WalkKv(root).val) = Cardinality(DOMAIN dict)

\* NodeStore(bs): a NodeStore with an empty cache over the blockstore of ns
FreshStore == [bs |-> ns.bs, cache |-> <<>>]

\* the CIDs of the nodes a walker of FreshStore meets from root c, and the
\* pairs it yields
FreshCids(c) ==
  Then(NodeWalker(FreshStore, c, PATH_MIN, PATH_MAX), LAMBDA w :
    iter_node_cids(w.ns, w.val))

FreshKv(c) ==
  Then(NodeWalker(FreshStore, c, PATH_MIN, PATH_MAX), LAMBDA w :
    iter_kv(w.ns, w.val, <<>>))

\* every node of the tree of c is a block of the blockstore, and a fresh
\* NodeStore walks the tree without raising
Closed(c) ==
  /\ TreeCids(c) \subseteq DOMAIN ns.bs
  /\ FreshCids(c).st = "ok"
  /\ FreshCids(c).val = TreeCids(c)
  /\ FreshKv(c).st = "ok"

\* C33: block closure. After any sequence of put_record and del_record over
\* a blockstore that keeps what is written, every node CID reachable from
\* every returned root (the root, every subtree reference that is not None,
\* the CID of the empty node when the tree is empty) resolves in the
\* blockstore, and a fresh NodeStore with an empty cache over the same
\* blockstore walks the whole tree without KeyError.
C33_BlockClosure ==
  /\ \A c \in {root, root_a} \cup
              (IF last.op \in {"put", "del"}
                 THEN {last.before} \cup
                      (IF last.st = "ok" THEN {last.ret} ELSE {})
                 ELSE {}) : Closed(c)
  /\ FreshKv(root).val = Items(dict)
  /\ FreshKv(root_a).val = Items(dict_a)
  /\ dict = <<>> => root = EMPTY_NODE_CID

\* a put has returned a tree of three nodes and more, none of them in the
\* cache of the fresh NodeStore that walks it
C33_Witness ==
  /\ last.op = "put"
  /\ last.st = "ok"
  /\ last.absent
  /\ root = last.ret
  /\ root_a # EMPTY_NODE_CID
  /\ Cardinality(FreshCids(root).val) >= 3

\* get_node(None) on store s returns the empty node, no keys and the one
\* subtree None, and leaves its block in the blockstore
EmptyNodeStored(s) ==
  \E g \in {get_node(s, None)} :
    /\ g.st = "ok"
    /\ g.val.keys = <<>>
    /\ g.val.vals = <<>>
    /\ g.val.subtrees = <<None>>
    /\ cid(g.val) = EMPTY_NODE_CID
    /\ EMPTY_NODE_CID \in DOMAIN g.ns.bs
    /\ get_block(g.ns.bs, EMPTY_NODE_CID).st = "ok"
    /\ get_block(g.ns.bs, EMPTY_NODE_CID).val = serialised(g.val)

\* C34: empty-root normalisation. NodeStore.get_node(None) returns the
\* canonical empty node and after the call its block is in the blockstore;
\* del_record never returns a null CID: deleting the last key returns the
\* CID of the canonical empty node, the CID put_record sequences start from.
C34_EmptyRootNormalised ==
  /\ EmptyNodeStored(ns)
  /\ EmptyNodeStored(FreshStore)
  /\ EmptyNodeStored([bs |-> <<>>, cache |-> <<>>])
  /\ root # None
  /\ (last.op = "del" /\ last.st = "ok") =>
       /\ last.ret # None
       /\ dict = <<>> => last.ret = EMPTY_NODE_CID
  /\ (nops = 0) => root = EMPTY_NODE_CID

\* the last key of a tree has been deleted
C34_Witness ==
  /\ last.op = "del"
  /\ last.st = "ok"
  /\ ~last.absent
  /\ last.before # EMPTY_NODE_CID
  /\ dict = <<>>
  /\ root = EMPTY_NODE_CID

\* the cursors one call of right, right_or_up or down away from w
AfterRight(w) ==
  {r.val : r \in {x \in {right(w), right_or_up(w)} : x.st = "ok"}}

AfterDown(w) == {d.val : d \in {x \in {down(ns, w)} : x.st = "ok"}}

\* lpath < rpath at the cursor, and every key of the node of the frame is
\* strictly between the bounds the frame inherited
InBounds(w) ==
  /\ StrLt(w_lpath(w), w_rpath(w))
  /\ \A i \in 1..Len(frame(w).node.keys) :
       /\ StrLt(frame(w).lpath, frame(w).node.keys[i])
       /\ StrLt(frame(w).node.keys[i], frame(w).rpath)

\* every key is above PATH_MIN and below PATH_MAX
KeysInsideSentinels ==
  \A k \in Keys : StrLt(PATH_MIN, k) /\ StrLt(k, PATH_MAX)

\* C35 as stated: walker bounds invariant. In every reachable cursor state
\* lpath < rpath, every key of the node of the current frame lies strictly
\* between the bounds the frame inherited, and no call of down, right or
\* right_or_up decreases rpath.
C35_RpathNeverDecreases ==
  /\ KeysInsideSentinels
  /\ \A w \in RootCursors \cup SubCursors :
       /\ InBounds(w)
       /\ \A v \in AfterRight(w) \cup AfterDown(w) :
            StrLe(w_rpath(w), w_rpath(v))

\* C35 as amended: walker bounds invariant. In every reachable cursor state
\* lpath < rpath, every key of the node of the current frame lies strictly
\* between the bounds the frame inherited, no call of right or right_or_up
\* decreases rpath, and down keeps lpath and does not increase rpath.
C35_WalkerBounds ==
  /\ KeysInsideSentinels
  /\ \A w \in RootCursors \cup SubCursors :
       /\ InBounds(w)
       /\ \A v \in AfterRight(w) :
            /\ StrLe(w_rpath(w), w_rpath(v))
            /\ StrLe(w_lpath(w), w_lpath(v))
       /\ \A v \in AfterDown(w) :
            /\ w_lpath(v) = w_lpath(w)
            /\ StrLe(w_rpath(v), w_rpath(w))

\* a cursor went down into a subtree, where rpath is a key below the rpath
\* it had, and right_or_up from the end of a node two levels under the root
\* moved it to a greater rpath
C35_Witness ==
  /\ \E w \in RootCursors : \E v \in AfterDown(w) :
       StrLt(w_rpath(v), w_rpath(w))
  /\ \E w \in RootCursors :
       /\ Len(w) = 3
       /\ ~can_go_right(w)
       /\ \E v \in AfterRight(w) : StrLt(w_rpath(w), w_rpath(v))

\* the last put of the prototype had a key higher than the root it was
\* given, a root with keys
ProtoGrew ==
  /\ pcall.op = "put"
  /\ pcall.before # EMPTY_NODE_CID
  /\ height(get_node(pns, pcall.before).val).st = "ok"
  /\ key_height(pcall.key) > height(get_node(pns, pcall.before).val).val

\* C36: growth keeps the old tree. In NodeWrangler.put of src/mst.py, when
\* key_height(key) is greater than the height of a root that is not empty,
\* the returned tree contains the new key and every (key, value) pair of the
\* original tree, the original root being a node of the returned tree, under
\* the new nodes without keys.
C36_GrowthKeepsOldTree ==
  ProtoGrew =>
    /\ pcall.st = "ok"
    /\ \E old \in {TreePairs(pns, pcall.before)},
          new \in {TreePairs(pns, pcall.ret)} :
         /\ \E i \in 1..Len(new) : new[i] = <<pcall.key, pcall.val>>
         /\ \A j \in 1..Len(old) : \E i \in 1..Len(new) : new[i] = old[j]
         /\ Len(new) = Len(old) + 1

====
